---------------------------- MODULE Spec2Model ----------------------------
(***************************************************************************)
(* A model of pumpkin-world's Level (src/pumpkin-world/src/level.rs): the  *)
(* watcher table (chunk_watchers), the chunk cache (loaded_chunks), the     *)
(* fetch pipeline (fetch_chunks) and the eviction controller               *)
(* (clean_chunks / write_chunks).                                          *)
(*                                                                         *)
(* Chunk coordinates (Vector2<i32>) are the numbers 1..NumCoords.  A chunk  *)
(* handle (SyncChunk = Arc<RwLock<ChunkData>>) is an index into chunk_data, *)
(* the sequence of all chunk instances allocated so far; two handles are    *)
(* the same instance exactly when they are the same index.  Chunk content   *)
(* is a version number: 0 is what the generator produces, and every write   *)
(* through a handle makes a new, larger version.                            *)
(***************************************************************************)
EXTENDS Integers, Sequences, FiniteSets, TLC

\* ------------------------------------------------------------------ bounds
NumCoords == 2
NumCallers == 2
MaxListLen == 2
MaxFetchCalls == 2
MaxCleanCalls == 2
MaxVersion == 1
NumEvictCoords == 1
MaxTicks == 4
MaxDelay == 2
NumPriorities == 2
NumLiveCallers == 1
MaxEvictTicks == 1
SmallCap == 1
MaxSceneFetches == 3
MaxBegins == 2
NumProcs == 3
MaxLockTicks == 1
MaxLockLoads == 1
MaxLockDelay == 1
NumLockPriorities == 1

\* The capacity of the two bridge channels of fetch_chunks.
BridgeCap == 16

Coords == 1..NumCoords
Callers == 1..NumCallers
\* The coordinates used where eviction runs.
EvictCoords == 1..NumEvictCoords

\* ----------------------------------------------------------------- helpers
Range(s) == {s[i] : i \in DOMAIN s}

\* The argument lists callers pass (&[Vector2<i32>]): coordinate sets, as lists
\* without repetition, of at most MaxListLen coordinates.
ListsOver(S) ==
    {s \in UNION {[1..n -> S] : n \in 0..MaxListLen} :
        \A i, j \in DOMAIN s : i # j => s[i] # s[j]}

\* DashMap as a partial function: a key has an entry iff it is in the DOMAIN.
Put(m, k, v) == [x \in (DOMAIN m) \cup {k} |-> IF x = k THEN v ELSE m[x]]
Del(m, k) == [x \in (DOMAIN m) \ {k} |-> m[x]]
EmptyMap == [x \in {} |-> 0]

\* usize::saturating_sub
SatSub(v, n) == IF v > n THEN v - n ELSE 0

VARIABLES
    chunk_watchers,   \* Level.chunk_watchers: coordinate -> usize
    watching,         \* per caller: the coordinates it currently watches
    chunks_to_clean,  \* per caller: what its last mark_chunks_as_not_watched returned
    lastOp,           \* history: the last watcher-table call and what it returned
    loaded_chunks,    \* Level.loaded_chunks: coordinate -> handle
    spawn_chunks,     \* Level.spawn_chunks: coordinate -> handle
    chunk_data,       \* every chunk instance allocated so far
    entry_locks,      \* coordinates whose loaded_chunks entry is write-locked
    disk,             \* the storage backend: coordinate -> saved content
    latest,           \* history: the newest content each coordinate had in memory
    fetch,            \* per caller: its fetch_chunks call
    rayon,            \* the generation closures handed to rayon::spawn
    gen_count,        \* history: world_gen.generate_chunk executions per coordinate
    fetch_calls,      \* fetch_chunks calls started so far
    tasks,            \* the eviction tasks clean_chunks has spawned, in spawn order
    block_ticks,      \* Level.block_ticks: the global Vec<ScheduledTick>
    chunk_ticks,      \* ChunkData.block_ticks of each chunk instance that holds any
    disk_ticks,       \* the block ticks in the saved record of each coordinate
    tick_hist,        \* history: per scheduled tick, its delay and the calls it has seen
    last_ticks,       \* history: the last get_and_tick_block_ticks call
    bridge_cap,       \* the capacity of the two bridge channels
    shutdown,         \* the Level::shutdown call
    errored,          \* history: the (caller, coordinate) pairs the backend reported Error for
    watch_call,       \* per caller: its watcher-table call, when run entry by entry
    watch_hist,       \* history: per coordinate, the entry operations completed
    tick_lock,        \* the owner of the Mutex of Level.block_ticks, 0 when free
    chunk_locks,      \* the RwLock of each chunk instance that is locked
    lock_call         \* per process: its call, when run lock by lock

watchVars == <<chunk_watchers, watching, chunks_to_clean>>
callerVars == <<chunk_watchers, watching, chunks_to_clean, lastOp>>
cacheVars == <<loaded_chunks, spawn_chunks, chunk_data, entry_locks>>
storageVars == <<disk, latest>>
fetchVars == <<fetch, rayon, gen_count, fetch_calls>>
tickVars == <<block_ticks, chunk_ticks, disk_ticks, tick_hist, last_ticks>>
ctlVars == <<bridge_cap, shutdown>>
watchCallVars == <<watch_call, watch_hist>>
lockVars == <<tick_lock, chunk_locks, lock_call>>
moreVars == <<watchCallVars, lockVars>>
lateVars == <<tickVars, ctlVars, errored, moreVars>>
vars == <<chunk_watchers, watching, chunks_to_clean, lastOp, loaded_chunks,
          spawn_chunks, chunk_data, entry_locks, disk, latest, fetch, rayon,
          gen_count, fetch_calls, tasks, block_ticks, chunk_ticks, disk_ticks,
          tick_hist, last_ticks, bridge_cap, shutdown, errored, watch_call,
          watch_hist, tick_lock, chunk_locks, lock_call>>

\* ScheduledTick lists kept per chunk instance and per saved record: a key is
\* present exactly when its list is not empty.
TicksOf(m, k) == IF k \in DOMAIN m THEN m[k] ELSE <<>>
SetTicks(m, k, ticks) == IF ticks = <<>> THEN Del(m, k) ELSE Put(m, k, ticks)

\* No get_and_tick_block_ticks call yet, and no shutdown call.
NoCall == [before |-> <<>>, ret |-> <<>>, rest |-> <<>>]
NoShutdown == [pc |-> "none", chunks_to_write |-> <<>>, i |-> 1, written |-> {},
               tasks_at_close |-> 0, reads_at_close |-> {}, world_info |-> "none"]
NoWatchCall == [op |-> "none", chunks |-> <<>>, i |-> 1, chunks_to_clean |-> <<>>]
\* A process that is in no call and holds no chunk lock.
NoLockCall == [op |-> "none", pc |-> "idle", chunks |-> <<>>, i |-> 1, chunk |-> 0,
               arg |-> 0, ticks |-> <<>>, held |-> 0]

\* Level::from_root_folder: no scheduled ticks, not shut down.
InitPlain ==
    /\ block_ticks = <<>>
    /\ chunk_ticks = EmptyMap
    /\ disk_ticks = EmptyMap
    /\ tick_hist = EmptyMap
    /\ last_ticks = NoCall
    /\ shutdown = NoShutdown
    /\ errored = {}
    /\ watch_call = [p \in 1..NumCallers |-> NoWatchCall]
    /\ watch_hist = [c \in 1..NumCoords |-> [begun |-> 0, stopped |-> 0, reported |-> 0]]
    /\ tick_lock = 0
    /\ chunk_locks = EmptyMap
    /\ lock_call = [p \in 1..NumProcs |-> NoLockCall]

\* The bridges of fetch_chunks hold 16 messages.
InitRest ==
    /\ InitPlain
    /\ bridge_cap = BridgeCap

\* ------------------------------------------------------------ watcher table
\* One iteration of mark_chunks_as_newly_watched: chunk_watchers.entry(chunk).
\* The checked_add overflow branch needs usize::MAX watchers of one chunk and
\* is not reachable with NumCallers callers.
WatchEntry_noIncrement(w, c) ==
    IF c \in DOMAIN w THEN w ELSE Put(w, c, 1)

WatchEntry(w, c) ==
    IF c \in DOMAIN w THEN Put(w, c, w[c] + 1) ELSE Put(w, c, 1)

RECURSIVE MarkNewlyWatched(_, _)
MarkNewlyWatched(w, chunks) ==
    IF chunks = <<>> THEN w
    ELSE MarkNewlyWatched(WatchEntry(w, Head(chunks)), Tail(chunks))

\* One iteration of mark_chunks_as_not_watched: the new table and what the
\* iteration pushes on chunks_to_clean.
UnwatchEntry_keepZero(w, c) ==
    IF c \in DOMAIN w
    THEN LET value == SatSub(w[c], 1) IN
         [w |-> Put(w, c, value), clean |-> IF value = 0 THEN <<c>> ELSE <<>>]
    ELSE [w |-> w, clean |-> <<>>]

UnwatchEntry_alwaysReport(w, c) ==
    IF c \in DOMAIN w
    THEN LET value == SatSub(w[c], 1) IN
         [w |-> IF value = 0 THEN Del(w, c) ELSE Put(w, c, value), clean |-> <<c>>]
    ELSE [w |-> w, clean |-> <<>>]

UnwatchEntry_reportVacant(w, c) ==
    IF c \in DOMAIN w
    THEN LET value == SatSub(w[c], 1) IN
         IF value = 0
         THEN [w |-> Del(w, c), clean |-> <<c>>]
         ELSE [w |-> Put(w, c, value), clean |-> <<>>]
    ELSE [w |-> w, clean |-> <<c>>]

UnwatchEntry(w, c) ==
    IF c \in DOMAIN w
    THEN LET value == SatSub(w[c], 1) IN
         IF value = 0
         THEN [w |-> Del(w, c), clean |-> <<c>>]
         ELSE [w |-> Put(w, c, value), clean |-> <<>>]
    ELSE [w |-> w, clean |-> <<>>]

RECURSIVE MarkNotWatched(_, _)
MarkNotWatched(w, chunks) ==
    IF chunks = <<>> THEN [w |-> w, clean |-> <<>>]
    ELSE LET one == UnwatchEntry(w, Head(chunks))
             rest == MarkNotWatched(one.w, Tail(chunks))
         IN [w |-> rest.w, clean |-> one.clean \o rest.clean]

\* Level::mark_chunks_as_newly_watched.  chunk_saver.watch_chunks is an
\* advisory hint to the storage backend and changes nothing of the Level.
MarkChunksAsNewlyWatched(p, chunks) ==
    /\ chunk_watchers' = MarkNewlyWatched(chunk_watchers, chunks)
    /\ watching' = [watching EXCEPT ![p] = @ \cup Range(chunks)]
    /\ UNCHANGED <<lateVars, chunks_to_clean, cacheVars, storageVars, fetchVars, tasks>>

\* Level::mark_chunks_as_not_watched; it returns MarkNotWatched(..).clean, which
\* the caller keeps or drops.  chunk_saver.unwatch_chunks is advisory as well.
MarkChunksAsNotWatched(p, chunks) ==
    /\ chunk_watchers' = MarkNotWatched(chunk_watchers, chunks).w
    /\ watching' = [watching EXCEPT ![p] = @ \ Range(chunks)]
    /\ UNCHANGED <<lateVars, cacheVars, storageVars, fetchVars, tasks>>

\* Level::clean_memory: chunk_watchers.retain(non-zero), then
\* loaded_chunks.retain(has a chunk_watchers entry).  retain takes the write
\* lock of every shard, so it waits for a generation that holds an entry.  The
\* shrink_to_fit calls change capacity only.
CleanMemory ==
    LET kept == [x \in {k \in DOMAIN chunk_watchers : chunk_watchers[k] # 0} |->
                    chunk_watchers[x]]
    IN /\ entry_locks = {}
       /\ chunk_watchers' = kept
       /\ loaded_chunks' = [x \in {k \in DOMAIN loaded_chunks : k \in DOMAIN kept} |->
                               loaded_chunks[x]]
       /\ UNCHANGED <<lateVars, watching, chunks_to_clean, spawn_chunks, chunk_data,
                      entry_locks, storageVars, fetchVars, tasks>>

\* Level::is_chunk_watched
IsChunkWatched(c) == c \in DOMAIN chunk_watchers

\* The history of watcher-table calls starts empty.
NoOp == [op |-> "none", who |-> 0, chunks |-> <<>>, before |-> EmptyMap,
         before0 |-> EmptyMap, ret |-> <<>>]

\* ------------------------------------------------------------ fetch_chunks
\* A fetch_chunks call.  pc: "idle" (no call), "partition" (the loop over the
\* cached chunks), "io" (the storage read and the two handlers run), "returned".
IdleFetch ==
    [pc |-> "idle", chunks |-> <<>>, i |-> 1, remaining_chunks |-> <<>>,
     pending |-> {}, load_bridge |-> <<>>, load |-> "recv",
     cur |-> [kind |-> "none", pos |-> 0, chunk |-> 0],
     generate_bridge |-> <<>>, out |-> <<>>, receiver |-> TRUE]

\* channel.send returned Err because the caller has dropped the receiver:
\* inspect_err logs it and "let _ =" discards it.
SendFailed_panics(f) == [f EXCEPT !.pc = "panicked"]

SendFailed(f) == f

\* send_chunk: one emission on the caller's unbounded result channel, received
\* if the caller still holds the receiver.
SendChunk(f, is_new, chunk) ==
    IF f.receiver
    THEN [f EXCEPT !.out = Append(@, [chunk |-> chunk, is_new |-> is_new])]
    ELSE SendFailed(f)

\* loaded_chunks.entry(position).or_insert(chunk)
OrInsert_overwrite(m, k, v) == Put(m, k, v)

OrInsert(m, k, v) == IF k \in DOMAIN m THEN m ELSE Put(m, k, v)

\* loaded_chunks.entry(pos) taken for or_insert_with: the entry stays
\* write-locked while the closure (the generator) runs.
LockEntry_notHeld(locks, pos) == locks

LockEntry(locks, pos) == locks \cup {pos}

\* A send on a bounded bridge channel completes when the channel has room.
HasRoom_never(bridge) == FALSE

HasRoom(bridge) == Len(bridge) < bridge_cap

\* Level::fetch_chunks, up to the first loop iteration; max bounds the number
\* of calls of a run.
FetchCall(p, chunks, max) ==
    /\ fetch[p].pc = "idle"
    /\ fetch_calls < max
    /\ fetch_calls' = fetch_calls + 1
    /\ fetch' = [fetch EXCEPT ![p] =
                    [IdleFetch EXCEPT !.pc = IF chunks = <<>> THEN "returned" ELSE "partition",
                                      !.chunks = chunks]]
    /\ UNCHANGED <<lateVars, callerVars, cacheVars, storageVars, rayon, gen_count, tasks>>

FetchChunks(p, chunks) == FetchCall(p, chunks, MaxFetchCalls)

\* After the loop: return when nothing remains, else create the bridges, spawn
\* handle_load and handle_generate and hand remaining_chunks to the backend.
AfterPartition(f) ==
    IF f.i <= Len(f.chunks) THEN f
    ELSE IF f.remaining_chunks = <<>> THEN [f EXCEPT !.pc = "returned"]
    ELSE [f EXCEPT !.pc = "io", !.pending = Range(f.remaining_chunks)]

\* One iteration of "for chunk in chunks": a cache hit, a spawn chunk hit
\* (cloned into loaded_chunks) or a push on remaining_chunks.
PartitionStep(p) ==
    LET f == fetch[p]
        c == f.chunks[f.i]
        g == [f EXCEPT !.i = @ + 1]
    IN /\ f.pc = "partition"
       /\ f.i <= Len(f.chunks)
       /\ c \notin entry_locks
       /\ IF c \in DOMAIN loaded_chunks
          THEN /\ fetch' = [fetch EXCEPT ![p] =
                               AfterPartition(SendChunk(g, FALSE, loaded_chunks[c]))]
               /\ UNCHANGED loaded_chunks
          ELSE IF c \in DOMAIN spawn_chunks
          THEN /\ loaded_chunks' = Put(loaded_chunks, c, spawn_chunks[c])
               /\ fetch' = [fetch EXCEPT ![p] =
                               AfterPartition(SendChunk(g, FALSE, spawn_chunks[c]))]
          ELSE /\ fetch' = [fetch EXCEPT ![p] =
                               AfterPartition([g EXCEPT !.remaining_chunks = Append(@, c)])]
               /\ UNCHANGED loaded_chunks
       /\ UNCHANGED <<lateVars, callerVars, spawn_chunks, chunk_data, entry_locks, storageVars,
                      rayon, gen_count, fetch_calls, tasks>>

\* The storage backend (chunk_saver.fetch_chunks) reports one forwarded
\* coordinate on load_bridge: Loaded with a new chunk instance holding the
\* saved content, Missing, or Error.
StorageOutcomes(c) ==
    IF c \in DOMAIN disk THEN {"Loaded", "Error"} ELSE {"Missing", "Error"}

StorageReport(p, c) ==
    LET f == fetch[p] IN
    /\ f.pc = "io"
    /\ c \in f.pending
    /\ HasRoom(f.load_bridge)
    /\ \E kind \in StorageOutcomes(c) :
          LET h == IF kind = "Loaded" THEN Len(chunk_data) + 1 ELSE 0 IN
          /\ chunk_data' =
                IF kind = "Loaded"
                THEN Append(chunk_data, [position |-> c, data |-> disk[c], origin |-> "loaded"])
                ELSE chunk_data
          /\ chunk_ticks' =
                IF kind = "Loaded"
                THEN SetTicks(chunk_ticks, h, TicksOf(disk_ticks, c))
                ELSE chunk_ticks
          /\ fetch' = [fetch EXCEPT ![p] =
                          [f EXCEPT !.pending = @ \ {c},
                                    !.load_bridge = Append(@, [kind |-> kind, pos |-> c, chunk |-> h])]]
    /\ UNCHANGED <<callerVars, loaded_chunks, spawn_chunks, entry_locks, storageVars,
                   rayon, gen_count, fetch_calls, tasks, block_ticks, disk_ticks,
                   tick_hist, last_ticks, ctlVars, moreVars>>

\* handle_load's match: Missing and Error, whatever the error, both send the
\* position to the generation handler.
ForwardsToGeneration_missingOnly(kind) == kind = "Missing"

ForwardsToGeneration(kind) == kind \in {"Missing", "Error"}

\* handle_load: load_bridge_recv.recv() returns the next report.
HandleLoadRecv(p) ==
    LET f == fetch[p] IN
    /\ f.pc = "io"
    /\ f.load = "recv"
    /\ f.load_bridge # <<>>
    /\ fetch' = [fetch EXCEPT ![p] =
                    [f EXCEPT !.cur = Head(f.load_bridge),
                              !.load_bridge = Tail(@),
                              !.load = IF Head(f.load_bridge).kind = "Loaded"
                                       THEN "insert"
                                       ELSE IF ForwardsToGeneration(Head(f.load_bridge).kind)
                                       THEN "forward" ELSE "recv"]]
    /\ UNCHANGED <<lateVars, callerVars, cacheVars, storageVars, rayon, gen_count, fetch_calls, tasks>>

\* handle_load, LoadedData::Loaded: the chunk's block ticks are appended to
\* the global ones, then insert unless present, emit the cached one.
HandleLoadInsert(p) ==
    LET f == fetch[p]
        position == chunk_data[f.cur.chunk].position
        inserted == OrInsert(loaded_chunks, position, f.cur.chunk)
    IN /\ f.pc = "io"
       /\ f.load = "insert"
       /\ position \notin entry_locks
       /\ block_ticks' = block_ticks \o TicksOf(chunk_ticks, f.cur.chunk)
       /\ loaded_chunks' = inserted
       /\ fetch' = [fetch EXCEPT ![p] =
                       SendChunk([f EXCEPT !.load = "recv"], FALSE, inserted[position])]
       /\ UNCHANGED <<callerVars, spawn_chunks, chunk_data, entry_locks, storageVars,
                      rayon, gen_count, fetch_calls, tasks, chunk_ticks, disk_ticks,
                      tick_hist, last_ticks, ctlVars, errored, moreVars>>

\* handle_load, LoadedData::Missing and LoadedData::Error:
\* generate_bridge_send.send(pos).await
HandleLoadForward(p) ==
    LET f == fetch[p] IN
    /\ f.pc = "io"
    /\ f.load = "forward"
    /\ HasRoom(f.generate_bridge)
    /\ fetch' = [fetch EXCEPT ![p] =
                    [f EXCEPT !.generate_bridge = Append(@, f.cur.pos), !.load = "recv"]]
    /\ UNCHANGED <<lateVars, callerVars, cacheVars, storageVars, rayon, gen_count, fetch_calls, tasks>>

\* handle_load has ended: its channel is closed (the backend has reported
\* everything and dropped the sender) and empty.
LoadEnded(f) == f.load = "recv" /\ f.load_bridge = <<>> /\ f.pending = {}

\* handle_generate has ended: handle_load has dropped generate_bridge_send and
\* the channel is empty.
GenerateEnded(f) == LoadEnded(f) /\ f.generate_bridge = <<>>

\* handle_generate: one received position becomes one rayon::spawn closure.
HandleGenerateRecv(p) ==
    LET f == fetch[p] IN
    /\ f.pc = "io"
    /\ f.generate_bridge # <<>>
    /\ rayon' = rayon \cup {[owner |-> p, pos |-> Head(f.generate_bridge),
                             st |-> "queued", result |-> 0]}
    /\ fetch' = [fetch EXCEPT ![p] = [f EXCEPT !.generate_bridge = Tail(@)]]
    /\ UNCHANGED <<lateVars, callerVars, cacheVars, storageVars, gen_count, fetch_calls, tasks>>

\* The closure takes loaded_chunks.entry(pos): an occupied entry gives the
\* cached chunk, a vacant one starts the generator under the entry's lock.
RayonEnter(j) ==
    /\ j.st = "queued"
    /\ j.pos \notin entry_locks
    /\ IF j.pos \in DOMAIN loaded_chunks
       THEN /\ rayon' = (rayon \ {j}) \cup
                           {[j EXCEPT !.st = "send", !.result = loaded_chunks[j.pos]]}
            /\ UNCHANGED entry_locks
       ELSE /\ rayon' = (rayon \ {j}) \cup {[j EXCEPT !.st = "generating"]}
            /\ entry_locks' = LockEntry(entry_locks, j.pos)
    /\ UNCHANGED <<lateVars, callerVars, loaded_chunks, spawn_chunks, chunk_data, storageVars,
                   fetch, gen_count, fetch_calls, tasks>>

\* world_gen.generate_chunk(pos) ends: the new chunk is inserted and the entry
\* released.
RayonGenerated(j) ==
    LET h == Len(chunk_data) + 1 IN
    /\ j.st = "generating"
    /\ chunk_data' = Append(chunk_data, [position |-> j.pos, data |-> 0, origin |-> "generated"])
    /\ loaded_chunks' = Put(loaded_chunks, j.pos, h)
    /\ entry_locks' = entry_locks \ {j.pos}
    /\ gen_count' = [gen_count EXCEPT ![j.pos] = @ + 1]
    /\ rayon' = (rayon \ {j}) \cup {[j EXCEPT !.st = "send", !.result = h]}
    /\ UNCHANGED <<lateVars, callerVars, spawn_chunks, storageVars, fetch, fetch_calls, tasks>>

\* The is_new flag of send_chunk(true, result, &channel): true whether the
\* closure generated the chunk or found the entry occupied.
GeneratedFlag_onlyIfGenerated(result) == chunk_data[result].origin = "generated"

GeneratedFlag(result) == TRUE

\* send_chunk(true, result, &channel) ends the closure.
RayonSend(j) ==
    /\ j.st = "send"
    /\ fetch' = [fetch EXCEPT ![j.owner] = SendChunk(@, GeneratedFlag(j.result), j.result)]
    /\ rayon' = rayon \ {j}
    /\ UNCHANGED <<lateVars, callerVars, cacheVars, storageVars, gen_count, fetch_calls, tasks>>

\* set.join_all(): both spawned handlers have ended.
JoinAll_loadOnly(f) == LoadEnded(f)

JoinAll(f) == LoadEnded(f) /\ GenerateEnded(f)

\* fetch_chunks returns.
FetchReturn(p) ==
    /\ fetch[p].pc = "io"
    /\ JoinAll(fetch[p])
    /\ fetch' = [fetch EXCEPT ![p].pc = "returned"]
    /\ UNCHANGED <<lateVars, callerVars, cacheVars, storageVars, rayon, gen_count, fetch_calls, tasks>>

\* The caller's receiver has seen the result channel close: the call has
\* returned and every closure holding a sender is gone.
ChannelClosed(p) ==
    /\ fetch[p].pc = "returned"
    /\ \A j \in rayon : j.owner # p

ReceiverDone(p) ==
    /\ ChannelClosed(p)
    /\ fetch' = [fetch EXCEPT ![p] = IdleFetch]
    /\ UNCHANGED <<lateVars, callerVars, cacheVars, storageVars, rayon, gen_count, fetch_calls, tasks>>

\* A world that has run before: some chunks are saved on disk; coordinate 1 may
\* be a spawn chunk, still cached or evicted (and then saved) since.
FetchWorld ==
    /\ chunk_watchers = EmptyMap
    /\ watching = [p \in Callers |-> {}]
    /\ chunks_to_clean = [p \in Callers |-> <<>>]
    /\ lastOp = NoOp
    /\ entry_locks = {}
    /\ latest = [c \in Coords |-> 0]
    /\ fetch = [p \in Callers |-> IdleFetch]
    /\ rayon = {}
    /\ gen_count = [c \in Coords |-> 0]
    /\ fetch_calls = 0
    /\ tasks = <<>>
    /\ \E saved \in SUBSET Coords : disk = [c \in saved |-> 0]
    /\ \E spawn \in {"none", "cached", "evicted"} :
          /\ spawn = "evicted" => 1 \in DOMAIN disk
          /\ chunk_data = IF spawn = "none" THEN <<>>
                          ELSE <<[position |-> 1, data |-> 0, origin |-> "generated"]>>
          /\ spawn_chunks = IF spawn = "none" THEN EmptyMap ELSE [c \in {1} |-> 1]
          /\ loaded_chunks = IF spawn = "cached" THEN [c \in {1} |-> 1] ELSE EmptyMap

InitFetch == InitRest /\ FetchWorld

NextFetch ==
    \/ \E p \in Callers : \E chunks \in ListsOver(Coords) : FetchChunks(p, chunks)
    \/ \E p \in Callers : PartitionStep(p)
    \/ \E p \in Callers : \E c \in Coords :
          StorageReport(p, c) /\ UNCHANGED errored
    \/ \E p \in Callers : HandleLoadRecv(p)
    \/ \E p \in Callers : HandleLoadInsert(p)
    \/ \E p \in Callers : HandleLoadForward(p)
    \/ \E p \in Callers : HandleGenerateRecv(p)
    \/ \E j \in rayon : RayonEnter(j)
    \/ \E j \in rayon : RayonGenerated(j)
    \/ \E j \in rayon : RayonSend(j)
    \/ \E p \in Callers : FetchReturn(p)

SpecFetch == InitFetch /\ [][NextFetch]_vars

\* Termination.  The calls of LiveCallers run under fair scheduling: tokio
\* polls every spawned handler that can make a step, rayon runs every queued
\* closure, and the backend reports every coordinate it was given.  The bridge
\* capacity is 16, or SmallCap so that lists of MaxListLen coordinates fill the
\* bridges: every wait on a full bridge of 16 is a wait on a full bridge of
\* SmallCap.
LiveCallers == 1..NumLiveCallers

InitLive ==
    /\ InitPlain
    /\ bridge_cap \in {SmallCap, BridgeCap}
    /\ FetchWorld

NextLive ==
    \/ \E p \in LiveCallers : \E chunks \in ListsOver(Coords) : FetchChunks(p, chunks)
    \/ \E p \in LiveCallers : PartitionStep(p)
    \/ \E p \in LiveCallers : \E c \in Coords : StorageReport(p, c) /\ UNCHANGED errored
    \/ \E p \in LiveCallers : HandleLoadRecv(p)
    \/ \E p \in LiveCallers : HandleLoadInsert(p)
    \/ \E p \in LiveCallers : HandleLoadForward(p)
    \/ \E p \in LiveCallers : HandleGenerateRecv(p)
    \/ \E j \in rayon : RayonEnter(j)
    \/ \E j \in rayon : RayonGenerated(j)
    \/ \E j \in rayon : RayonSend(j)
    \/ \E p \in LiveCallers : FetchReturn(p)
    \/ \E p \in LiveCallers : ReceiverDone(p)

FairLive ==
    /\ \A p \in LiveCallers :
          /\ WF_vars(PartitionStep(p))
          /\ WF_vars(\E c \in Coords : StorageReport(p, c) /\ UNCHANGED errored)
          /\ WF_vars(HandleLoadRecv(p))
          /\ WF_vars(HandleLoadInsert(p))
          /\ WF_vars(HandleLoadForward(p))
          /\ WF_vars(HandleGenerateRecv(p))
          /\ WF_vars(FetchReturn(p))
    /\ WF_vars(\E j \in rayon : RayonEnter(j))
    /\ WF_vars(\E j \in rayon : RayonGenerated(j))
    /\ WF_vars(\E j \in rayon : RayonSend(j))

SpecLive == InitLive /\ [][NextLive]_vars /\ FairLive

\* The caller drops the receiving side of its result channel while its call
\* runs or its closures are still queued.
DropReceiver(p) ==
    /\ fetch[p].pc \in {"partition", "io", "returned"}
    /\ ~ChannelClosed(p)
    /\ fetch[p].receiver
    /\ fetch' = [fetch EXCEPT ![p].receiver = FALSE]
    /\ UNCHANGED <<lateVars, callerVars, cacheVars, storageVars, rayon, gen_count, fetch_calls, tasks>>

NextDrop ==
    \/ NextLive
    \/ \E p \in LiveCallers : DropReceiver(p)

SpecDrop == InitLive /\ [][NextDrop]_vars /\ FairLive

\* The backend's reports, with the Error ones recorded.
LoggedStorageReport(p, c) ==
    /\ StorageReport(p, c)
    /\ errored' = IF fetch'[p].load_bridge[Len(fetch'[p].load_bridge)].kind = "Error"
                  THEN errored \cup {<<p, c>>} ELSE errored

NextFetchErr ==
    \/ \E p \in Callers : \E chunks \in ListsOver(Coords) : FetchChunks(p, chunks)
    \/ \E p \in Callers : PartitionStep(p)
    \/ \E p \in Callers : \E c \in Coords : LoggedStorageReport(p, c)
    \/ \E p \in Callers : HandleLoadRecv(p)
    \/ \E p \in Callers : HandleLoadInsert(p)
    \/ \E p \in Callers : HandleLoadForward(p)
    \/ \E p \in Callers : HandleGenerateRecv(p)
    \/ \E j \in rayon : RayonEnter(j)
    \/ \E j \in rayon : RayonGenerated(j)
    \/ \E j \in rayon : RayonSend(j)
    \/ \E p \in Callers : FetchReturn(p)

SpecFetchErr == InitFetch /\ [][NextFetchErr]_vars

\* ------------------------------------------------ the watcher calls, logged
LoggedBegin(p, chunks) ==
    /\ MarkChunksAsNewlyWatched(p, chunks)
    /\ lastOp' = [op |-> "begin", who |-> p, chunks |-> chunks,
                  before |-> chunk_watchers, before0 |-> chunk_watchers, ret |-> <<>>]

LoggedStop(p, chunks) ==
    LET paired == lastOp.op = "begin" /\ Range(lastOp.chunks) = Range(chunks) IN
    /\ MarkChunksAsNotWatched(p, chunks)
    /\ UNCHANGED chunks_to_clean
    /\ lastOp' = [op |-> IF paired THEN "begin_stop" ELSE "stop",
                  who |-> p, chunks |-> chunks, before |-> chunk_watchers,
                  before0 |-> IF paired THEN lastOp.before ELSE chunk_watchers,
                  ret |-> MarkNotWatched(chunk_watchers, chunks).clean]

LoggedCleanMemory ==
    /\ CleanMemory
    /\ lastOp' = [NoOp EXCEPT !.op = "clean_memory", !.before = chunk_watchers,
                                  !.before0 = chunk_watchers]

\* A Level whose cache holds any of the chunks (instance c for coordinate c),
\* with no watcher yet.
InitWatch ==
    /\ InitRest
    /\ chunk_watchers = EmptyMap
    /\ watching = [p \in Callers |-> {}]
    /\ chunks_to_clean = [p \in Callers |-> <<>>]
    /\ lastOp = NoOp
    /\ chunk_data = [h \in Coords |-> [position |-> h, data |-> 0, origin |-> "generated"]]
    /\ \E S \in SUBSET Coords : loaded_chunks = [c \in S |-> c]
    /\ spawn_chunks = EmptyMap
    /\ entry_locks = {}
    /\ disk = EmptyMap
    /\ latest = [c \in Coords |-> 0]
    /\ fetch = [p \in Callers |-> IdleFetch]
    /\ rayon = {}
    /\ gen_count = [c \in Coords |-> 0]
    /\ fetch_calls = 0
    /\ tasks = <<>>

\* Callers keep the documented contract: begin on chunks "the player was not
\* watching before", stop on chunks "the player was watching before".
NextWatch ==
    \/ \E p \in Callers : \E chunks \in ListsOver(Coords \ watching[p]) :
          LoggedBegin(p, chunks)
    \/ \E p \in Callers : \E chunks \in ListsOver(watching[p]) :
          LoggedStop(p, chunks)
    \/ LoggedCleanMemory

SpecWatch == InitWatch /\ [][NextWatch]_vars

\* Callers that do not keep the contract of mark_chunks_as_not_watched: any
\* caller stops watching any coordinates, watched by it or by no one.
NextUnwatch ==
    \/ \E p \in Callers : \E chunks \in ListsOver(Coords \ watching[p]) :
          LoggedBegin(p, chunks)
    \/ \E p \in Callers : \E chunks \in ListsOver(Coords) :
          LoggedStop(p, chunks)
    \/ LoggedCleanMemory

SpecUnwatch == InitWatch /\ [][NextUnwatch]_vars

\* ------------------------------------ the watcher calls, entry by entry
\* Concurrent mark_chunks_as_newly_watched and mark_chunks_as_not_watched
\* calls: each iteration of the loop over chunks holds the DashMap entry of its
\* coordinate (chunk_watchers.entry(*chunk)) from the match to the end of the
\* arm, so an iteration is one step; the calls of different callers interleave
\* between iterations.
StartWatchCall(p, op, chunks) ==
    /\ watch_call[p].op = "none"
    /\ chunks # <<>>
    /\ watch_call' = [watch_call EXCEPT ![p] =
                         [NoWatchCall EXCEPT !.op = op, !.chunks = chunks]]
    /\ UNCHANGED <<callerVars, cacheVars, storageVars, fetchVars, tasks, tickVars,
                   ctlVars, errored, watch_hist, lockVars>>

\* One iteration of the loop of mark_chunks_as_newly_watched.
WatchStep(p) ==
    LET call == watch_call[p]
        c == call.chunks[call.i]
    IN /\ call.op = "begin"
       /\ call.i <= Len(call.chunks)
       /\ chunk_watchers' = WatchEntry(chunk_watchers, c)
       /\ watching' = [watching EXCEPT ![p] = @ \cup {c}]
       /\ watch_call' = [watch_call EXCEPT ![p].i = @ + 1]
       /\ watch_hist' = [watch_hist EXCEPT ![c].begun = @ + 1]
       /\ UNCHANGED <<chunks_to_clean, lastOp, cacheVars, storageVars, fetchVars, tasks,
                      tickVars, ctlVars, errored, lockVars>>

\* One iteration of the loop of mark_chunks_as_not_watched.
UnwatchStep(p) ==
    LET call == watch_call[p]
        c == call.chunks[call.i]
        one == UnwatchEntry(chunk_watchers, c)
    IN /\ call.op = "stop"
       /\ call.i <= Len(call.chunks)
       /\ chunk_watchers' = one.w
       /\ watching' = [watching EXCEPT ![p] = @ \ {c}]
       /\ watch_call' = [watch_call EXCEPT ![p].i = @ + 1,
                                           ![p].chunks_to_clean = @ \o one.clean]
       /\ watch_hist' = [watch_hist EXCEPT ![c].stopped = @ + 1,
                                           ![c].reported = @ + Len(one.clean)]
       /\ UNCHANGED <<chunks_to_clean, lastOp, cacheVars, storageVars, fetchVars, tasks,
                      tickVars, ctlVars, errored, lockVars>>

\* The call returns after the last iteration; mark_chunks_as_not_watched
\* returns its chunks_to_clean.
WatchCallReturn(p) ==
    LET call == watch_call[p] IN
    /\ call.op # "none"
    /\ call.i > Len(call.chunks)
    /\ chunks_to_clean' =
          IF call.op = "stop"
          THEN [chunks_to_clean EXCEPT ![p] = call.chunks_to_clean]
          ELSE chunks_to_clean
    /\ watch_call' = [watch_call EXCEPT ![p] = NoWatchCall]
    /\ UNCHANGED <<chunk_watchers, watching, lastOp, cacheVars, storageVars, fetchVars,
                   tasks, tickVars, ctlVars, errored, watch_hist, lockVars>>

\* Callers keep the documented contract; a coordinate is watched anew at most
\* MaxBegins times by the calls started.
NextWatchConc ==
    \/ \E p \in Callers : \E chunks \in ListsOver(Coords \ watching[p]) :
          /\ \A i \in DOMAIN chunks : watch_hist[chunks[i]].begun < MaxBegins
          /\ StartWatchCall(p, "begin", chunks)
    \/ \E p \in Callers : \E chunks \in ListsOver(watching[p]) :
          StartWatchCall(p, "stop", chunks)
    \/ \E p \in Callers : WatchStep(p)
    \/ \E p \in Callers : UnwatchStep(p)
    \/ \E p \in Callers : WatchCallReturn(p)

SpecWatchConc == InitWatch /\ [][NextWatchConc]_vars

\* ------------------------------------------------------------ clean_chunks
\* The filter of clean_chunks: no entry in the watcher map, or 0 watchers.
HasNoWatchers(pos) ==
    pos \notin DOMAIN chunk_watchers \/ chunk_watchers[pos] = 0

\* The predicate of remove_if: "Recheck that there is no one watching".
StillNoWatchers_unchecked(pos) == TRUE

StillNoWatchers(pos) ==
    pos \notin DOMAIN chunk_watchers \/ chunk_watchers[pos] = 0

\* chunks_with_no_watchers: the cached, unwatched chunks of the list.
RECURSIVE ChunksWithNoWatchers(_)
ChunksWithNoWatchers(chunks) ==
    IF chunks = <<>> THEN <<>>
    ELSE LET pos == Head(chunks)
             rest == ChunksWithNoWatchers(Tail(chunks))
         IN IF HasNoWatchers(pos) /\ pos \in DOMAIN loaded_chunks
            THEN <<[pos |-> pos, chunk |-> loaded_chunks[pos]]>> \o rest
            ELSE rest

\* What the spawned task does, in order: write_chunks(...).await, then the
\* remove_if loop.
EvictionOrder_removeFirst == <<"remove", "write">>

EvictionOrder == <<"write", "remove">>

Phase(t) == IF t.phase > Len(EvictionOrder) THEN "done" ELSE EvictionOrder[t.phase]

\* The task moves to its next phase when the loop of the current one is over.
Advance(t) ==
    IF t.i > Len(t.snap) THEN [t EXCEPT !.phase = @ + 1, !.i = 1] ELSE t

\* Level::clean_chunks: take the snapshot and spawn the task.
CleanChunks(p) ==
    LET chunks == chunks_to_clean[p] IN
    /\ chunks # <<>>
    /\ Len(tasks) < MaxCleanCalls
    /\ Range(chunks) \cap entry_locks = {}
    /\ tasks' = Append(tasks, [snap |-> ChunksWithNoWatchers(chunks), phase |-> 1, i |-> 1,
                               written |-> {}, removed |-> {}])
    /\ chunks_to_clean' = [chunks_to_clean EXCEPT ![p] = <<>>]
    /\ UNCHANGED <<lateVars, chunk_watchers, watching, lastOp, cacheVars, storageVars, fetchVars>>

\* write_chunks with nothing to write returns at once, and the remove_if loop
\* over an empty list does nothing.
TaskSkip(n) ==
    LET t == tasks[n] IN
    /\ Phase(t) # "done"
    /\ t.snap = <<>>
    /\ tasks' = [tasks EXCEPT ![n] = Advance(t)]
    /\ UNCHANGED <<lateVars, callerVars, cacheVars, storageVars, fetchVars>>

\* write_chunks, for one (coord, chunk) of chunks_to_write: the chunk's
\* block_ticks are cleared and the global ticks of that coordinate moved into
\* them.
OwnTicks(ticks, coord) == SelectSeq(ticks, LAMBDA tick : tick.pos = coord)
OtherTicks(ticks, coord) == SelectSeq(ticks, LAMBDA tick : tick.pos # coord)

\* write_chunks: the ticks of one chunk of the snapshot are drained into it and
\* chunk_saver.save_chunks serializes it, as it is in memory now, and stores
\* it.  write_chunks returns after the last.
TaskWrite(n) ==
    LET t == tasks[n]
        e == t.snap[t.i]
    IN /\ Phase(t) = "write"
       /\ t.snap # <<>>
       /\ block_ticks' = OtherTicks(block_ticks, e.pos)
       /\ chunk_ticks' = SetTicks(chunk_ticks, e.chunk, OwnTicks(block_ticks, e.pos))
       /\ disk' = Put(disk, e.pos, chunk_data[e.chunk].data)
       /\ disk_ticks' = SetTicks(disk_ticks, e.pos, OwnTicks(block_ticks, e.pos))
       /\ tasks' = [tasks EXCEPT ![n] =
                       Advance([t EXCEPT !.i = @ + 1, !.written = @ \cup {e.pos}])]
       /\ UNCHANGED <<callerVars, cacheVars, latest, fetchVars, tick_hist, last_ticks,
                      ctlVars, errored, moreVars>>

\* loaded_chunks.remove_if(&pos, recheck)
RemoveIf_never(m, k, pred) == m

RemoveIf(m, k, pred) == IF k \in DOMAIN m /\ pred THEN Del(m, k) ELSE m

\* One iteration of the loop over chunks_to_remove.
TaskRemove(n) ==
    LET t == tasks[n]
        e == t.snap[t.i]
        after == RemoveIf(loaded_chunks, e.pos, StillNoWatchers(e.pos))
    IN /\ Phase(t) = "remove"
       /\ t.snap # <<>>
       /\ e.pos \notin entry_locks
       /\ loaded_chunks' = after
       /\ tasks' = [tasks EXCEPT ![n] =
                       Advance([t EXCEPT !.i = @ + 1,
                                         !.removed = IF after # loaded_chunks
                                                     THEN @ \cup {e.pos} ELSE @])]
       /\ UNCHANGED <<lateVars, callerVars, spawn_chunks, chunk_data, entry_locks, storageVars, fetchVars>>

\* Level::try_get_chunk, and a write through the handle it gives: a caller that
\* watches the chunk changes its content.
TryGetChunk(c) ==
    IF c \in DOMAIN loaded_chunks /\ c \notin entry_locks THEN {loaded_chunks[c]} ELSE {}

ModifyChunk(p, c) ==
    /\ c \in watching[p]
    /\ latest[c] < MaxVersion
    /\ \E h \in TryGetChunk(c) :
          chunk_data' = [chunk_data EXCEPT ![h].data = latest[c] + 1]
    /\ latest' = [latest EXCEPT ![c] = @ + 1]
    /\ UNCHANGED <<lateVars, callerVars, loaded_chunks, spawn_chunks, entry_locks, disk, fetchVars, tasks>>

BeginWatching(p, chunks) ==
    /\ MarkChunksAsNewlyWatched(p, chunks)
    /\ UNCHANGED lastOp

\* The caller keeps the list for its clean_chunks call.
StopWatching(p, chunks) ==
    /\ MarkChunksAsNotWatched(p, chunks)
    /\ chunks_to_clean' = [chunks_to_clean EXCEPT ![p] = MarkNotWatched(chunk_watchers, chunks).clean]
    /\ UNCHANGED lastOp

\* A new world: Level::from_root_folder on an empty folder.
InitEvict ==
    /\ InitRest
    /\ chunk_watchers = EmptyMap
    /\ watching = [p \in Callers |-> {}]
    /\ chunks_to_clean = [p \in Callers |-> <<>>]
    /\ lastOp = NoOp
    /\ loaded_chunks = EmptyMap
    /\ spawn_chunks = EmptyMap
    /\ chunk_data = <<>>
    /\ entry_locks = {}
    /\ disk = EmptyMap
    /\ latest = [c \in Coords |-> 0]
    /\ fetch = [p \in Callers |-> IdleFetch]
    /\ rayon = {}
    /\ gen_count = [c \in Coords |-> 0]
    /\ fetch_calls = 0
    /\ tasks = <<>>

\* Callers behave as a player's chunk tracker does: begin_watching before the
\* fetch of the same chunks, writes only to watched chunks, and clean_chunks
\* with what stop_watching returned before the next watcher call.
NextEvict ==
    \/ \E p \in Callers : \E chunks \in ListsOver(EvictCoords \ watching[p]) :
          chunks # <<>> /\ chunks_to_clean[p] = <<>> /\ BeginWatching(p, chunks)
    \/ \E p \in Callers : \E chunks \in ListsOver(watching[p]) :
          chunks # <<>> /\ chunks_to_clean[p] = <<>> /\ StopWatching(p, chunks)
    \/ \E p \in Callers : CleanChunks(p)
    \/ \E n \in DOMAIN tasks : TaskSkip(n)
    \/ \E n \in DOMAIN tasks : TaskWrite(n)
    \/ \E n \in DOMAIN tasks : TaskRemove(n)
    \/ \E p \in Callers : \E c \in EvictCoords : ModifyChunk(p, c)
    \/ \E p \in Callers : \E chunks \in ListsOver(watching[p]) :
          chunks # <<>> /\ FetchChunks(p, chunks)
    \/ \E p \in Callers : PartitionStep(p)
    \/ \E p \in Callers : \E c \in EvictCoords :
          StorageReport(p, c) /\ UNCHANGED errored
    \/ \E p \in Callers : HandleLoadRecv(p)
    \/ \E p \in Callers : HandleLoadInsert(p)
    \/ \E p \in Callers : HandleLoadForward(p)
    \/ \E p \in Callers : HandleGenerateRecv(p)
    \/ \E j \in rayon : RayonEnter(j)
    \/ \E j \in rayon : RayonGenerated(j)
    \/ \E j \in rayon : RayonSend(j)
    \/ \E p \in Callers : FetchReturn(p)
    \/ \E p \in Callers : ReceiverDone(p)

SpecEvict == InitEvict /\ [][NextEvict]_vars

\* ---------------------------------------------------------------- shutdown
\* The storage reads the backend has accepted and not yet reported.
OutstandingReads == {pc \in (DOMAIN fetch) \X Coords : pc[2] \in fetch[pc[1]].pending}

\* Level::shutdown.  pc: "none" (not called), "wait" (tasks.wait()), "collect"
\* (the iteration over loaded_chunks), "clear", "write" (write_chunks), "done".
\* shutdown_notifier.notify_waiters() and tasks.close().
ShutdownStart ==
    /\ shutdown.pc = "none"
    /\ shutdown' = [shutdown EXCEPT !.pc = "wait", !.tasks_at_close = Len(tasks),
                                    !.reads_at_close = OutstandingReads]
    /\ UNCHANGED <<callerVars, cacheVars, storageVars, fetchVars, tasks, tickVars,
                   bridge_cap, errored, moreVars>>

\* tasks.wait().await returns when no spawned task is left.
ShutdownAwaitTasks ==
    /\ shutdown.pc = "wait"
    /\ \A n \in DOMAIN tasks : Phase(tasks[n]) = "done"
    /\ shutdown' = [shutdown EXCEPT !.pc = "drain"]
    /\ UNCHANGED <<callerVars, cacheVars, storageVars, fetchVars, tasks, tickVars,
                   bridge_cap, errored, moreVars>>

\* chunk_saver.block_and_await_ongoing_tasks().await returns when the backend
\* has finished the loads and saves it had accepted: no fetch_chunks call has
\* a report outstanding.
BackendDrained_always == TRUE

BackendDrained == OutstandingReads = {}

ShutdownAwaitBackend ==
    /\ shutdown.pc = "drain"
    /\ BackendDrained
    /\ shutdown' = [shutdown EXCEPT !.pc = "collect"]
    /\ UNCHANGED <<callerVars, cacheVars, storageVars, fetchVars, tasks, tickVars,
                   bridge_cap, errored, moreVars>>

\* loaded_chunks.iter().map(..).collect(): every entry, whatever its watchers.
RECURSIVE AllCached_unwatchedOnly(_, _)
AllCached_unwatchedOnly(m, keys) ==
    IF keys = {} THEN <<>>
    ELSE LET k == CHOOSE x \in keys : \A y \in keys : x <= y IN
         (IF k \in DOMAIN chunk_watchers THEN <<>> ELSE <<[pos |-> k, chunk |-> m[k]]>>)
             \o AllCached_unwatchedOnly(m, keys \ {k})

RECURSIVE AllCached(_, _)
AllCached(m, keys) ==
    IF keys = {} THEN <<>>
    ELSE LET k == CHOOSE x \in keys : \A y \in keys : x <= y IN
         <<[pos |-> k, chunk |-> m[k]]>> \o AllCached(m, keys \ {k})

\* "save all chunks currently in memory": chunks_to_write is collected.
ShutdownCollect ==
    /\ shutdown.pc = "collect"
    /\ entry_locks = {}
    /\ shutdown' = [shutdown EXCEPT !.pc = "clear",
                                    !.chunks_to_write = AllCached(loaded_chunks, DOMAIN loaded_chunks)]
    /\ UNCHANGED <<callerVars, cacheVars, storageVars, fetchVars, tasks, tickVars,
                   bridge_cap, errored, moreVars>>

\* loaded_chunks.clear()
Cleared_kept(m) == m

Cleared(m) == EmptyMap

\* loaded_chunks.clear(), chunk_saver.clear_watched_chunks() (the backend's own
\* watch set), and write_chunks' return at once when nothing is to be written.
ShutdownClear ==
    /\ shutdown.pc = "clear"
    /\ entry_locks = {}
    /\ loaded_chunks' = Cleared(loaded_chunks)
    /\ shutdown' = [shutdown EXCEPT !.pc = IF shutdown.chunks_to_write = <<>>
                                          THEN "info" ELSE "write"]
    /\ UNCHANGED <<callerVars, spawn_chunks, chunk_data, entry_locks, storageVars,
                   fetchVars, tasks, tickVars, bridge_cap, errored, moreVars>>

\* write_chunks(chunks_to_write), one chunk: as in the eviction task.
ShutdownWrite ==
    LET e == shutdown.chunks_to_write[shutdown.i] IN
    /\ shutdown.pc = "write"
    /\ block_ticks' = OtherTicks(block_ticks, e.pos)
    /\ chunk_ticks' = SetTicks(chunk_ticks, e.chunk, OwnTicks(block_ticks, e.pos))
    /\ disk' = Put(disk, e.pos, chunk_data[e.chunk].data)
    /\ disk_ticks' = SetTicks(disk_ticks, e.pos, OwnTicks(block_ticks, e.pos))
    /\ shutdown' = [shutdown EXCEPT !.i = @ + 1, !.written = @ \cup {e.pos},
                                    !.pc = IF shutdown.i = Len(shutdown.chunks_to_write)
                                          THEN "info" ELSE "write"]
    /\ UNCHANGED <<callerVars, cacheVars, latest, fetchVars, tasks, tick_hist,
                   last_ticks, bridge_cap, errored, moreVars>>

\* world_info_writer.write_world_info(..): Ok, or an Err that is logged;
\* shutdown returns in both cases.
WorldInfoResults == {"Ok", "Err"}

ShutdownWriteInfo ==
    /\ shutdown.pc = "info"
    /\ \E result \in WorldInfoResults :
          shutdown' = [shutdown EXCEPT !.pc = "done", !.world_info = result]
    /\ UNCHANGED <<callerVars, cacheVars, storageVars, fetchVars, tasks, tickVars,
                   bridge_cap, errored, moreVars>>

\* Callers watch and stop watching, eviction runs, and shutdown is called at
\* any moment.
NextShutdown ==
    \/ \E p \in Callers : \E chunks \in ListsOver(Coords \ watching[p]) :
          chunks # <<>> /\ chunks_to_clean[p] = <<>> /\ BeginWatching(p, chunks)
    \/ \E p \in Callers : \E chunks \in ListsOver(watching[p]) :
          chunks # <<>> /\ chunks_to_clean[p] = <<>> /\ StopWatching(p, chunks)
    \/ \E p \in Callers : CleanChunks(p)
    \/ \E n \in DOMAIN tasks : TaskSkip(n)
    \/ \E n \in DOMAIN tasks : TaskWrite(n)
    \/ \E n \in DOMAIN tasks : TaskRemove(n)
    \/ ShutdownStart
    \/ ShutdownAwaitTasks
    \/ ShutdownAwaitBackend
    \/ ShutdownCollect
    \/ ShutdownClear
    \/ ShutdownWrite
    \/ ShutdownWriteInfo

SpecShutdown == InitWatch /\ [][NextShutdown]_vars

\* Shutdown with work in flight: one caller watches, fetches and evicts; its
\* fetch calls start before shutdown is called, and what they started goes on
\* while shutdown runs; clean_chunks is called at any moment.
NextShutdownOrder ==
    \/ \E p \in LiveCallers : \E chunks \in ListsOver(EvictCoords \ watching[p]) :
          chunks # <<>> /\ chunks_to_clean[p] = <<>> /\ BeginWatching(p, chunks)
    \/ \E p \in LiveCallers : \E chunks \in ListsOver(watching[p]) :
          chunks # <<>> /\ chunks_to_clean[p] = <<>> /\ StopWatching(p, chunks)
    \/ \E p \in LiveCallers : CleanChunks(p)
    \/ \E n \in DOMAIN tasks : TaskSkip(n)
    \/ \E n \in DOMAIN tasks : TaskWrite(n)
    \/ \E n \in DOMAIN tasks : TaskRemove(n)
    \/ \E p \in LiveCallers : \E chunks \in ListsOver(EvictCoords) :
          chunks # <<>> /\ shutdown.pc = "none" /\ FetchChunks(p, chunks)
    \/ \E p \in LiveCallers : PartitionStep(p)
    \/ \E p \in LiveCallers : \E c \in EvictCoords :
          StorageReport(p, c) /\ UNCHANGED errored
    \/ \E p \in LiveCallers : HandleLoadRecv(p)
    \/ \E p \in LiveCallers : HandleLoadInsert(p)
    \/ \E p \in LiveCallers : HandleLoadForward(p)
    \/ \E p \in LiveCallers : HandleGenerateRecv(p)
    \/ \E j \in rayon : RayonEnter(j)
    \/ \E j \in rayon : RayonGenerated(j)
    \/ \E j \in rayon : RayonSend(j)
    \/ \E p \in LiveCallers : FetchReturn(p)
    \/ \E p \in LiveCallers : ReceiverDone(p)
    \/ ShutdownStart
    \/ ShutdownAwaitTasks
    \/ ShutdownAwaitBackend
    \/ ShutdownCollect
    \/ ShutdownClear
    \/ ShutdownWrite
    \/ ShutdownWriteInfo

SpecShutdownOrder == InitEvict /\ [][NextShutdownOrder]_vars

\* ------------------------------------------------------------- block ticks
\* A ScheduledTick is [id, pos, delay, priority]: id stands for its block_pos and
\* target_block_id, pos is the chunk coordinate of block_pos, delay is a u16 and
\* priority a TickPriority, ordered as the numbers 1..NumPriorities.
Delays == 0..MaxDelay
Priorities == 1..NumPriorities

\* Level::schedule_block_tick: push on block_ticks.
ScheduleBlockTick(pos, delay, priority) ==
    LET id == Cardinality(DOMAIN tick_hist) + 1 IN
    /\ id <= MaxTicks
    /\ block_ticks' = Append(block_ticks,
                             [id |-> id, pos |-> pos, delay |-> delay, priority |-> priority])
    /\ tick_hist' = Put(tick_hist, id, [delay |-> delay, calls |-> 0, returned |-> 0, at |-> 0])
    /\ UNCHANGED <<callerVars, cacheVars, storageVars, fetchVars, tasks, chunk_ticks,
                   disk_ticks, last_ticks, ctlVars, errored, moreVars>>

\* tick.delay = tick.delay.saturating_sub(1)
Aged_unchanged(tick) == tick

Aged(tick) == [tick EXCEPT !.delay = SatSub(@, 1)]

\* ticks.sort_by_key(|tick| tick.priority): a stable sort.  One insertion puts
\* the tick behind every tick whose key is not greater.
RECURSIVE InsertByKey_beforeEqual(_, _)
InsertByKey_beforeEqual(sorted, tick) ==
    IF sorted # <<>> /\ sorted[Len(sorted)].priority >= tick.priority
    THEN Append(InsertByKey_beforeEqual(SubSeq(sorted, 1, Len(sorted) - 1), tick),
                sorted[Len(sorted)])
    ELSE Append(sorted, tick)

RECURSIVE InsertByKey(_, _)
InsertByKey(sorted, tick) ==
    IF sorted # <<>> /\ sorted[Len(sorted)].priority > tick.priority
    THEN Append(InsertByKey(SubSeq(sorted, 1, Len(sorted) - 1), tick), sorted[Len(sorted)])
    ELSE Append(sorted, tick)

RECURSIVE SortByKey(_)
SortByKey(ticks) ==
    IF ticks = <<>> THEN <<>>
    ELSE InsertByKey(SortByKey(SubSeq(ticks, 1, Len(ticks) - 1)), ticks[Len(ticks)])

\* Level::get_and_tick_block_ticks, under the lock: the body.  The history
\* counts, for every tick not yet returned, the calls made since it was
\* scheduled (up to MaxDelay + 1).
DrainAndAge ==
    LET aged == [i \in DOMAIN block_ticks |-> Aged(block_ticks[i])]
        ticks == SelectSeq(aged, LAMBDA tick : tick.delay = 0)
        remaining_ticks == SelectSeq(aged, LAMBDA tick : tick.delay # 0)
        ret == SortByKey(ticks)
        due == {ret[i].id : i \in DOMAIN ret}
    IN /\ block_ticks' = remaining_ticks
       /\ last_ticks' = [before |-> block_ticks, ret |-> ret, rest |-> remaining_ticks]
       /\ tick_hist' =
             [id \in DOMAIN tick_hist |->
                 LET h == tick_hist[id]
                     n == IF h.calls <= MaxDelay THEN h.calls + 1 ELSE h.calls
                 IN IF id \in due
                    THEN [h EXCEPT !.calls = n, !.returned = @ + 1, !.at = n]
                    ELSE IF h.returned = 0 THEN [h EXCEPT !.calls = n] ELSE h]

GetAndTickBlockTicks ==
    /\ DrainAndAge
    /\ UNCHANGED <<callerVars, cacheVars, storageVars, fetchVars, tasks, chunk_ticks,
                   disk_ticks, ctlVars, errored, moreVars>>

\* A Level with nothing cached and no tick scheduled.
InitTick == InitEvict

NextTick ==
    \/ \E pos \in EvictCoords : \E delay \in Delays : \E priority \in Priorities :
          ScheduleBlockTick(pos, delay, priority)
    \/ GetAndTickBlockTicks

SpecTick == InitTick /\ [][NextTick]_vars

\* Block ticks with eviction: one caller watches, fetches, stops watching and
\* evicts while ticks are scheduled and collected.
NextTickEvict ==
    \/ \E p \in LiveCallers : \E chunks \in ListsOver(EvictCoords \ watching[p]) :
          chunks # <<>> /\ chunks_to_clean[p] = <<>> /\ BeginWatching(p, chunks)
    \/ \E p \in LiveCallers : \E chunks \in ListsOver(watching[p]) :
          chunks # <<>> /\ chunks_to_clean[p] = <<>> /\ StopWatching(p, chunks)
    \/ \E p \in LiveCallers : CleanChunks(p)
    \/ \E n \in DOMAIN tasks : TaskSkip(n)
    \/ \E n \in DOMAIN tasks : TaskWrite(n)
    \/ \E n \in DOMAIN tasks : TaskRemove(n)
    \/ \E p \in LiveCallers : \E chunks \in ListsOver(EvictCoords) :
          chunks # <<>> /\ FetchChunks(p, chunks)
    \/ \E p \in LiveCallers : PartitionStep(p)
    \/ \E p \in LiveCallers : \E c \in EvictCoords :
          StorageReport(p, c) /\ UNCHANGED errored
    \/ \E p \in LiveCallers : HandleLoadRecv(p)
    \/ \E p \in LiveCallers : HandleLoadInsert(p)
    \/ \E p \in LiveCallers : HandleLoadForward(p)
    \/ \E p \in LiveCallers : HandleGenerateRecv(p)
    \/ \E j \in rayon : RayonEnter(j)
    \/ \E j \in rayon : RayonGenerated(j)
    \/ \E j \in rayon : RayonSend(j)
    \/ \E p \in LiveCallers : FetchReturn(p)
    \/ \E p \in LiveCallers : ReceiverDone(p)
    \/ \E pos \in EvictCoords : \E delay \in Delays : \E priority \in Priorities :
          /\ Cardinality(DOMAIN tick_hist) < MaxEvictTicks
          /\ ScheduleBlockTick(pos, delay, priority)
    \/ GetAndTickBlockTicks

SpecTickEvict == InitEvict /\ [][NextTickEvict]_vars

\* The same under fair scheduling: the server's tick loop keeps calling
\* get_and_tick_block_ticks, tokio runs every spawned eviction task and
\* handler, rayon every closure, and the backend reports what it was given.
FairTickEvict ==
    /\ WF_vars(GetAndTickBlockTicks)
    /\ WF_vars(\E n \in DOMAIN tasks : TaskSkip(n))
    /\ WF_vars(\E n \in DOMAIN tasks : TaskWrite(n))
    /\ WF_vars(\E n \in DOMAIN tasks : TaskRemove(n))
    /\ FairLive

SpecTickLive == InitEvict /\ [][NextTickEvict]_vars /\ FairTickEvict

\* Loading a chunk that was saved with a tick.  The world has run before:
\* coordinate 1 was generated, a tick was scheduled in it, and eviction saved
\* the chunk with the tick and removed it from the cache (the end of a run of
\* SpecTickEvict, chunk instances of that run forgotten).
InitTickLoad ==
    /\ bridge_cap = BridgeCap
    /\ shutdown = NoShutdown
    /\ errored = {}
    /\ watch_call = [p \in 1..NumCallers |-> NoWatchCall]
    /\ watch_hist = [c \in 1..NumCoords |-> [begun |-> 0, stopped |-> 0, reported |-> 0]]
    /\ tick_lock = 0
    /\ chunk_locks = EmptyMap
    /\ lock_call = [p \in 1..NumProcs |-> NoLockCall]
    /\ chunk_watchers = EmptyMap
    /\ watching = [p \in Callers |-> {}]
    /\ chunks_to_clean = [p \in Callers |-> <<>>]
    /\ lastOp = NoOp
    /\ loaded_chunks = EmptyMap
    /\ spawn_chunks = EmptyMap
    /\ chunk_data = <<>>
    /\ entry_locks = {}
    /\ latest = [c \in Coords |-> 0]
    /\ fetch = [p \in Callers |-> IdleFetch]
    /\ rayon = {}
    /\ gen_count = [c \in Coords |-> 0]
    /\ fetch_calls = 0
    /\ tasks = <<>>
    /\ disk = [c \in {1} |-> 0]
    /\ block_ticks = <<>>
    /\ chunk_ticks = EmptyMap
    /\ last_ticks = NoCall
    /\ \E delay \in Delays : \E priority \in Priorities :
          /\ disk_ticks = [c \in {1} |->
                              <<[id |-> 1, pos |-> 1, delay |-> delay, priority |-> priority]>>]
          /\ tick_hist = [id \in {1} |->
                             [delay |-> delay, calls |-> 0, returned |-> 0, at |-> 0]]

\* Callers fetch the saved chunk, one after the other or at the same time,
\* while the tick loop runs.
NextTickLoad ==
    \/ \E p \in Callers : \E chunks \in ListsOver(EvictCoords) :
          chunks # <<>> /\ FetchChunks(p, chunks)
    \/ \E p \in Callers : PartitionStep(p)
    \/ \E p \in Callers : \E c \in EvictCoords :
          StorageReport(p, c) /\ UNCHANGED errored
    \/ \E p \in Callers : HandleLoadRecv(p)
    \/ \E p \in Callers : HandleLoadInsert(p)
    \/ \E p \in Callers : HandleLoadForward(p)
    \/ \E p \in Callers : HandleGenerateRecv(p)
    \/ \E j \in rayon : RayonEnter(j)
    \/ \E j \in rayon : RayonGenerated(j)
    \/ \E j \in rayon : RayonSend(j)
    \/ \E p \in Callers : FetchReturn(p)
    \/ GetAndTickBlockTicks

SpecTickLoad == InitTickLoad /\ [][NextTickLoad]_vars

\* ------------------------------------------------- the end-to-end scenario
\* A fetch_chunks call whose caller has received every emission.
Done(p) == ChannelClosed(p) /\ fetch[p].chunks # <<>>

\* Nobody watches, every list stop_watching returned has been handed to
\* clean_chunks and every eviction task has ended.
Evicted ==
    /\ \A p \in Callers : watching[p] = {} /\ chunks_to_clean[p] = <<>>
    /\ \A n \in DOMAIN tasks : Phase(tasks[n]) = "done"

\* The first caller watches a coordinate of a new world and fetches it.
SceneWatchA ==
    /\ fetch_calls = 0
    /\ \A q \in Callers : watching[q] = {}
    /\ \E p \in Callers : \E c \in Coords : BeginWatching(p, <<c>>)

SceneFetchA ==
    /\ fetch_calls = 0
    /\ \E p \in Callers : \E c \in watching[p] : FetchCall(p, <<c>>, MaxSceneFetches)

\* The second caller watches the same coordinate, and fetches it once the
\* first caller's fetch is over.
SceneWatchB ==
    /\ fetch_calls = 1
    /\ \E p \in Callers : \E q \in Callers \ {p} :
          /\ watching[p] # {} /\ watching[q] = {}
          /\ \A r \in Callers \ {p} : watching[r] = {}
          /\ \E c \in watching[p] : BeginWatching(q, <<c>>)

SceneFetchB ==
    /\ fetch_calls = 1
    /\ \E p \in Callers : \E q \in Callers \ {p} :
          /\ Done(p)
          /\ \E c \in watching[q] : FetchCall(q, <<c>>, MaxSceneFetches)

\* Both callers stop watching, in either order, after the second fetch.
SceneStop ==
    /\ fetch_calls = 2
    /\ \A p \in Callers : fetch[p].pc # "idle" => Done(p)
    /\ \E p \in Callers : \E c \in watching[p] :
          chunks_to_clean[p] = <<>> /\ StopWatching(p, <<c>>)

\* A caller's receiver is dropped, and a later fetch asks for the coordinate
\* while nobody watches it.
SceneReceiverDone ==
    /\ fetch_calls >= 2
    /\ Evicted
    /\ \E p \in Callers : ReceiverDone(p)

SceneFetchLater ==
    /\ fetch_calls >= 2
    /\ Evicted
    /\ \E p \in Callers : \E c \in Coords :
          gen_count[c] > 0 /\ FetchCall(p, <<c>>, MaxSceneFetches)

\* The storage backend reads back what it has saved: a saved chunk is reported
\* Loaded; one that was never saved is Missing or fails with an Error.
SceneStorageReport(p, c) ==
    /\ StorageReport(p, c)
    /\ UNCHANGED errored
    /\ c \in DOMAIN disk =>
          fetch'[p].load_bridge[Len(fetch'[p].load_bridge)].kind = "Loaded"

NextScene ==
    \/ SceneWatchA
    \/ SceneFetchA
    \/ SceneWatchB
    \/ SceneFetchB
    \/ SceneStop
    \/ \E p \in Callers : CleanChunks(p)
    \/ \E n \in DOMAIN tasks : TaskWrite(n)
    \/ \E n \in DOMAIN tasks : TaskRemove(n)
    \/ SceneReceiverDone
    \/ SceneFetchLater
    \/ \E p \in Callers : PartitionStep(p)
    \/ \E p \in Callers : \E c \in Coords : SceneStorageReport(p, c)
    \/ \E p \in Callers : HandleLoadRecv(p)
    \/ \E p \in Callers : HandleLoadInsert(p)
    \/ \E p \in Callers : HandleLoadForward(p)
    \/ \E p \in Callers : HandleGenerateRecv(p)
    \/ \E j \in rayon : RayonEnter(j)
    \/ \E j \in rayon : RayonGenerated(j)
    \/ \E j \in rayon : RayonSend(j)
    \/ \E p \in Callers : FetchReturn(p)

SpecScene == InitEvict /\ [][NextScene]_vars

\* ------------------------------------------------- handles held by watchers
\* Callers that begin_watching a coordinate before they fetch it and give up
\* its handle (the receiver, or the finished call's results) before they
\* stop_watching it; clean_chunks and clean_memory run at any moment.
NextHold ==
    \/ \E p \in Callers : \E chunks \in ListsOver(EvictCoords \ watching[p]) :
          chunks # <<>> /\ chunks_to_clean[p] = <<>> /\ BeginWatching(p, chunks)
    \/ \E p \in Callers : \E chunks \in ListsOver(watching[p]) :
          /\ chunks # <<>> /\ chunks_to_clean[p] = <<>>
          /\ fetch[p].pc = "idle" \/ ~fetch[p].receiver
          /\ StopWatching(p, chunks)
    \/ \E p \in Callers : CleanChunks(p)
    \/ \E n \in DOMAIN tasks : TaskSkip(n)
    \/ \E n \in DOMAIN tasks : TaskWrite(n)
    \/ \E n \in DOMAIN tasks : TaskRemove(n)
    \/ CleanMemory /\ UNCHANGED lastOp
    \/ \E p \in Callers : \E chunks \in ListsOver(watching[p]) :
          chunks # <<>> /\ FetchChunks(p, chunks)
    \/ \E p \in Callers : PartitionStep(p)
    \/ \E p \in Callers : \E c \in EvictCoords :
          StorageReport(p, c) /\ UNCHANGED errored
    \/ \E p \in Callers : HandleLoadRecv(p)
    \/ \E p \in Callers : HandleLoadInsert(p)
    \/ \E p \in Callers : HandleLoadForward(p)
    \/ \E p \in Callers : HandleGenerateRecv(p)
    \/ \E j \in rayon : RayonEnter(j)
    \/ \E j \in rayon : RayonGenerated(j)
    \/ \E j \in rayon : RayonSend(j)
    \/ \E p \in Callers : FetchReturn(p)
    \/ \E p \in Callers : DropReceiver(p)
    \/ \E p \in Callers : ReceiverDone(p)

\* A new world, or one whose spawn chunk (coordinate 1) was read by
\* read_spawn_chunks, saved and evicted from the cache.
InitHold ==
    /\ InitRest
    /\ chunk_watchers = EmptyMap
    /\ watching = [p \in Callers |-> {}]
    /\ chunks_to_clean = [p \in Callers |-> <<>>]
    /\ lastOp = NoOp
    /\ loaded_chunks = EmptyMap
    /\ entry_locks = {}
    /\ latest = [c \in Coords |-> 0]
    /\ fetch = [p \in Callers |-> IdleFetch]
    /\ rayon = {}
    /\ gen_count = [c \in Coords |-> 0]
    /\ fetch_calls = 0
    /\ tasks = <<>>
    /\ \E spawn \in BOOLEAN :
          /\ disk = IF spawn THEN [c \in {1} |-> 0] ELSE EmptyMap
          /\ chunk_data = IF spawn
                          THEN <<[position |-> 1, data |-> 0, origin |-> "generated"]>>
                          ELSE <<>>
          /\ spawn_chunks = IF spawn THEN [c \in {1} |-> 1] ELSE EmptyMap

SpecHold == InitHold /\ [][NextHold]_vars

\* ------------------------------------------------------------------- locks
\* The operations that take the Mutex of Level.block_ticks or the RwLock of
\* a chunk, run lock by lock.  A process is a task that calls the Level:
\* write_chunks (from an eviction task or shutdown), the Loaded arm of
\* handle_load for one chunk the backend loaded, the three tick operations,
\* and a caller that locks a chunk handle it was sent.  lock_call[p] is its
\* position; its field held is the chunk instance whose lock the caller
\* itself holds, 0 when none.  Process 1 is the task that writes chunks,
\* process 2 the load handler of a fetch_chunks call, the others are callers.
Procs == 1..NumProcs
Writer == 1
Loader == 2
LockCallers == 3..NumProcs

NoLock == [readers |-> {}, writer |-> 0]
LockOf(h) == IF h \in DOMAIN chunk_locks THEN chunk_locks[h] ELSE NoLock
SetLock(h, l) == IF l = NoLock THEN Del(chunk_locks, h) ELSE Put(chunk_locks, h, l)

\* The lock a process is waiting for at its .await, if any.
AwaitsTickLock(p) == lock_call[p].pc = "lock_ticks"
AwaitsWrite(p, h) ==
    \/ lock_call[p].pc = "lock_chunk" /\ lock_call[p].chunks[lock_call[p].i].chunk = h
    \/ lock_call[p].pc = "lock_write" /\ lock_call[p].chunk = h
AwaitsRead(p, h) ==
    /\ lock_call[p].pc \in {"read_position", "read_ticks", "lock_read"}
    /\ lock_call[p].chunk = h

\* tokio::sync::RwLock is write-preferring: read() waits while a writer holds
\* the lock or waits for it, write() waits for every holder.
CanRead(h) == LockOf(h).writer = 0 /\ ~\E q \in Procs : AwaitsWrite(q, h)
CanWrite(h) == LockOf(h) = NoLock

\* Callers call the Level's operations only while they hold no chunk lock.
HoldsNoChunkLock(p) == lock_call[p].held = 0

\* A caller locks a cached chunk through its handle: chunk.read().await or
\* chunk.write().await.
CallerLock(p, h, pc) ==
    /\ lock_call[p].op = "none"
    /\ lock_call[p].held = 0
    /\ lock_call' = [lock_call EXCEPT ![p] = [NoLockCall EXCEPT !.op = "hold", !.pc = pc,
                                                               !.chunk = h]]
    /\ UNCHANGED <<callerVars, cacheVars, storageVars, fetchVars, tasks, tickVars, ctlVars,
                   errored, watchCallVars, tick_lock, chunk_locks>>

\* The caller's read() or write() returns the guard.
CallerLocked(p) ==
    LET k == lock_call[p]
        l == LockOf(k.chunk)
    IN /\ k.op = "hold"
       /\ IF k.pc = "lock_read" THEN CanRead(k.chunk) ELSE CanWrite(k.chunk)
       /\ chunk_locks' = SetLock(k.chunk, IF k.pc = "lock_read"
                                          THEN [l EXCEPT !.readers = @ \cup {p}]
                                          ELSE [l EXCEPT !.writer = p])
       /\ lock_call' = [lock_call EXCEPT ![p] = [NoLockCall EXCEPT !.held = k.chunk]]
       /\ UNCHANGED <<callerVars, cacheVars, storageVars, fetchVars, tasks, tickVars, ctlVars,
                      errored, watchCallVars, tick_lock>>

\* The caller drops its guard.
CallerUnlock(p) ==
    LET h == lock_call[p].held
        l == LockOf(h)
    IN /\ lock_call[p].op = "none"
       /\ h # 0
       /\ chunk_locks' = SetLock(h, [readers |-> l.readers \ {p},
                                     writer |-> IF l.writer = p THEN 0 ELSE l.writer])
       /\ lock_call' = [lock_call EXCEPT ![p] = NoLockCall]
       /\ UNCHANGED <<callerVars, cacheVars, storageVars, fetchVars, tasks, tickVars, ctlVars,
                      errored, watchCallVars, tick_lock>>

\* A call that starts with self.block_ticks.lock().await.
StartCall(p, call) ==
    /\ lock_call[p].op = "none"
    /\ HoldsNoChunkLock(p)
    /\ lock_call' = [lock_call EXCEPT ![p] = [call EXCEPT !.pc = "lock_ticks",
                                                          !.held = lock_call[p].held]]

\* write_chunks(chunks_to_write) with the cached chunks of a non-empty list
\* of coordinates (an empty list returns at 343).
CallWriteChunks(p, chunks) ==
    /\ chunks # <<>>
    /\ StartCall(p, [NoLockCall EXCEPT
                        !.op = "write_chunks",
                        !.chunks = [i \in DOMAIN chunks |->
                                       [pos |-> chunks[i], chunk |-> loaded_chunks[chunks[i]]]]])
    /\ UNCHANGED <<callerVars, cacheVars, storageVars, fetchVars, tasks, tickVars, ctlVars,
                   errored, watchCallVars, tick_lock, chunk_locks>>

\* schedule_block_tick, is_block_tick_scheduled and get_and_tick_block_ticks.
\* arg is the (delay, priority) of the new tick, or the tick asked about.
CallScheduleBlockTick(p, pos, delay, priority) ==
    /\ Cardinality(DOMAIN tick_hist)
         + Cardinality({q \in Procs : lock_call[q].op = "schedule_block_tick"}) < MaxLockTicks
    /\ StartCall(p, [NoLockCall EXCEPT
                        !.op = "schedule_block_tick",
                        !.arg = [pos |-> pos, delay |-> delay, priority |-> priority]])
    /\ UNCHANGED <<callerVars, cacheVars, storageVars, fetchVars, tasks, tickVars, ctlVars,
                   errored, watchCallVars, tick_lock, chunk_locks>>

CallIsBlockTickScheduled(p, id) ==
    /\ StartCall(p, [NoLockCall EXCEPT !.op = "is_block_tick_scheduled", !.arg = id])
    /\ UNCHANGED <<callerVars, cacheVars, storageVars, fetchVars, tasks, tickVars, ctlVars,
                   errored, watchCallVars, tick_lock, chunk_locks>>

CallGetAndTickBlockTicks(p) ==
    /\ StartCall(p, [NoLockCall EXCEPT !.op = "get_and_tick_block_ticks"])
    /\ UNCHANGED <<callerVars, cacheVars, storageVars, fetchVars, tasks, tickVars, ctlVars,
                   errored, watchCallVars, tick_lock, chunk_locks>>

\* handle_load receives LoadedData::Loaded(chunk): a new chunk instance with
\* the saved content and ticks of a saved coordinate.  Only the handler has
\* the handle until it is inserted.
CallHandleLoad(p, c) ==
    LET h == Len(chunk_data) + 1 IN
    /\ lock_call[p].op = "none"
    /\ HoldsNoChunkLock(p)
    /\ c \in DOMAIN disk
    /\ h <= NumCoords + MaxLockLoads
    /\ chunk_data' = Append(chunk_data, [position |-> c, data |-> disk[c], origin |-> "loaded"])
    /\ chunk_ticks' = SetTicks(chunk_ticks, h, TicksOf(disk_ticks, c))
    /\ lock_call' = [lock_call EXCEPT ![p] = [NoLockCall EXCEPT !.op = "handle_load",
                                                               !.pc = "read_position",
                                                               !.chunk = h,
                                                               !.held = lock_call[p].held]]
    /\ UNCHANGED <<callerVars, loaded_chunks, spawn_chunks, entry_locks, storageVars, fetchVars,
                   tasks, block_ticks, disk_ticks, tick_hist, last_ticks, ctlVars, errored,
                   watchCallVars, tick_lock, chunk_locks>>

\* chunk.read().await at 445 and at 448 returns the guard.
LoadReadLock(p) ==
    LET k == lock_call[p]
        l == LockOf(k.chunk)
    IN /\ k.op = "handle_load"
       /\ k.pc \in {"read_position", "read_ticks"}
       /\ CanRead(k.chunk)
       /\ chunk_locks' = SetLock(k.chunk, [l EXCEPT !.readers = @ \cup {p}])
       /\ lock_call' = [lock_call EXCEPT ![p].pc = IF k.pc = "read_position"
                                                   THEN "position" ELSE "block_ticks"]
       /\ UNCHANGED <<callerVars, cacheVars, storageVars, fetchVars, tasks, tickVars, ctlVars,
                      errored, watchCallVars, tick_lock>>

\* The guard is a temporary: it is dropped at the end of its statement, after
\* position was copied (445) or block_ticks cloned (448).
GuardAfterStatement_kept(l, p) == l

GuardAfterStatement(l, p) == [l EXCEPT !.readers = @ \ {p}]

LoadReadUnlock(p) ==
    LET k == lock_call[p] IN
    /\ k.op = "handle_load"
    /\ k.pc \in {"position", "block_ticks"}
    /\ chunk_locks' = SetLock(k.chunk, GuardAfterStatement(LockOf(k.chunk), p))
    /\ lock_call' = [lock_call EXCEPT ![p] =
                        IF k.pc = "position"
                        THEN [k EXCEPT !.pc = "read_ticks"]
                        ELSE [k EXCEPT !.pc = "lock_ticks",
                                       !.ticks = TicksOf(chunk_ticks, k.chunk)]]
    /\ UNCHANGED <<callerVars, cacheVars, storageVars, fetchVars, tasks, tickVars, ctlVars,
                   errored, watchCallVars, tick_lock>>

\* self.block_ticks.lock().await returns the guard: 345, 449, 531, 549, 562.
TickLockAcquire(p) ==
    /\ AwaitsTickLock(p)
    /\ tick_lock = 0
    /\ tick_lock' = p
    /\ lock_call' = [lock_call EXCEPT ![p].pc =
                        CASE lock_call[p].op = "write_chunks" -> "lock_chunk"
                          [] lock_call[p].op = "handle_load" -> "extend"
                          [] lock_call[p].op = "schedule_block_tick" -> "push"
                          [] lock_call[p].op = "is_block_tick_scheduled" -> "any"
                          [] OTHER -> "drain"]
    /\ UNCHANGED <<callerVars, cacheVars, storageVars, fetchVars, tasks, tickVars, ctlVars,
                   errored, watchCallVars, chunk_locks>>

\* write_chunks, 348: chunk.write().await returns the guard, the tick lock
\* being held.
WriteChunkLock(p) ==
    LET k == lock_call[p]
        h == k.chunks[k.i].chunk
    IN /\ k.pc = "lock_chunk"
       /\ CanWrite(h)
       /\ chunk_locks' = SetLock(h, [LockOf(h) EXCEPT !.writer = p])
       /\ lock_call' = [lock_call EXCEPT ![p].pc = "retain"]
       /\ UNCHANGED <<callerVars, cacheVars, storageVars, fetchVars, tasks, tickVars, ctlVars,
                      errored, watchCallVars, tick_lock>>

\* write_chunks, 349-361: the chunk's block_ticks are cleared, the global
\* ticks of its coordinate moved into them, and the chunk's guard is dropped
\* at the end of the iteration.
WriteChunkRetain(p) ==
    LET k == lock_call[p]
        e == k.chunks[k.i]
    IN /\ k.pc = "retain"
       /\ block_ticks' = OtherTicks(block_ticks, e.pos)
       /\ chunk_ticks' = SetTicks(chunk_ticks, e.chunk, OwnTicks(block_ticks, e.pos))
       /\ chunk_locks' = SetLock(e.chunk, [LockOf(e.chunk) EXCEPT !.writer = 0])
       /\ lock_call' = [lock_call EXCEPT ![p] =
                           IF k.i < Len(k.chunks)
                           THEN [k EXCEPT !.i = @ + 1, !.pc = "lock_chunk"]
                           ELSE [k EXCEPT !.pc = "drop"]]
       /\ UNCHANGED <<callerVars, cacheVars, storageVars, fetchVars, tasks, disk_ticks,
                      tick_hist, last_ticks, ctlVars, errored, watchCallVars, tick_lock>>

\* write_chunks, 362: drop(block_ticks).
WriteChunksDrop(p) ==
    /\ lock_call[p].pc = "drop"
    /\ tick_lock' = 0
    /\ lock_call' = [lock_call EXCEPT ![p].pc = "save"]
    /\ UNCHANGED <<callerVars, cacheVars, storageVars, fetchVars, tasks, tickVars, ctlVars,
                   errored, watchCallVars, chunk_locks>>

\* write_chunks, 364-373: chunk_saver.save_chunks stores every chunk of the
\* list as it is in memory now; the tick lock is no longer held.
SavedChunk(k, c) == (CHOOSE i \in DOMAIN k.chunks : k.chunks[i].pos = c)

WriteChunksSave(p) ==
    LET k == lock_call[p]
        saved == {k.chunks[i].pos : i \in DOMAIN k.chunks}
    IN /\ k.pc = "save"
       /\ disk' = [c \in DOMAIN disk \cup saved |->
                      IF c \in saved THEN chunk_data[k.chunks[SavedChunk(k, c)].chunk].data
                      ELSE disk[c]]
       /\ disk_ticks' =
             LET all == [c \in DOMAIN disk_ticks \cup saved |->
                            IF c \in saved
                            THEN TicksOf(chunk_ticks, k.chunks[SavedChunk(k, c)].chunk)
                            ELSE disk_ticks[c]]
             IN [c \in {x \in DOMAIN all : all[x] # <<>>} |-> all[c]]
       /\ lock_call' = [lock_call EXCEPT ![p] = [NoLockCall EXCEPT !.held = k.held]]
       /\ UNCHANGED <<callerVars, cacheVars, latest, fetchVars, tasks, block_ticks, chunk_ticks,
                      tick_hist, last_ticks, ctlVars, errored, watchCallVars, tick_lock,
                      chunk_locks>>

\* handle_load, 450-451: extend, then drop(level_block_ticks).
LoadExtend(p) ==
    LET k == lock_call[p] IN
    /\ k.pc = "extend"
    /\ block_ticks' = block_ticks \o k.ticks
    /\ tick_lock' = 0
    /\ lock_call' = [lock_call EXCEPT ![p].pc = "insert"]
    /\ UNCHANGED <<callerVars, cacheVars, storageVars, fetchVars, tasks, chunk_ticks,
                   disk_ticks, tick_hist, last_ticks, ctlVars, errored, watchCallVars,
                   chunk_locks>>

\* handle_load, 453-457: insert unless present.  What send_chunk then sends
\* on the call's channel is in HandleLoadInsert.
LoadInsert(p) ==
    LET k == lock_call[p]
        position == chunk_data[k.chunk].position
        inserted == OrInsert(loaded_chunks, position, k.chunk)
    IN /\ k.pc = "insert"
       /\ loaded_chunks' = inserted
       /\ lock_call' = [lock_call EXCEPT ![p] = [NoLockCall EXCEPT !.held = k.held]]
       /\ UNCHANGED <<callerVars, spawn_chunks, chunk_data, entry_locks, storageVars, fetchVars,
                      tasks, tickVars, ctlVars, errored, watchCallVars, tick_lock, chunk_locks>>

\* schedule_block_tick, 563-569: push; the guard is dropped on return.
SchedulePush(p) ==
    LET k == lock_call[p]
        id == Cardinality(DOMAIN tick_hist) + 1
    IN /\ k.pc = "push"
       /\ block_ticks' = Append(block_ticks, [id |-> id, pos |-> k.arg.pos,
                                              delay |-> k.arg.delay,
                                              priority |-> k.arg.priority])
       /\ tick_hist' = Put(tick_hist, id,
                           [delay |-> k.arg.delay, calls |-> 0, returned |-> 0, at |-> 0])
       /\ tick_lock' = 0
       /\ lock_call' = [lock_call EXCEPT ![p] = [NoLockCall EXCEPT !.held = k.held]]
       /\ UNCHANGED <<callerVars, cacheVars, storageVars, fetchVars, tasks, chunk_ticks,
                      disk_ticks, last_ticks, ctlVars, errored, watchCallVars, chunk_locks>>

\* is_block_tick_scheduled, 550-553: any() changes nothing; the guard is
\* dropped on return.
IsScheduledAny(p) ==
    LET k == lock_call[p] IN
    /\ k.pc = "any"
    /\ tick_lock' = 0
    /\ lock_call' = [lock_call EXCEPT ![p] = [NoLockCall EXCEPT !.held = k.held]]
    /\ UNCHANGED <<callerVars, cacheVars, storageVars, fetchVars, tasks, tickVars, ctlVars,
                   errored, watchCallVars, chunk_locks>>

\* get_and_tick_block_ticks, 532-546; the guard is dropped on return.
GetAndTickDrain(p) ==
    LET k == lock_call[p] IN
    /\ k.pc = "drain"
    /\ DrainAndAge
    /\ tick_lock' = 0
    /\ lock_call' = [lock_call EXCEPT ![p] = [NoLockCall EXCEPT !.held = k.held]]
    /\ UNCHANGED <<callerVars, cacheVars, storageVars, fetchVars, tasks, chunk_ticks,
                   disk_ticks, ctlVars, errored, watchCallVars, chunk_locks>>

\* Every coordinate is cached, generated and never saved; no tick yet.
InitLock ==
    /\ InitRest
    /\ chunk_watchers = EmptyMap
    /\ watching = [p \in Callers |-> {}]
    /\ chunks_to_clean = [p \in Callers |-> <<>>]
    /\ lastOp = NoOp
    /\ loaded_chunks = [c \in Coords |-> c]
    /\ spawn_chunks = EmptyMap
    /\ chunk_data = [c \in Coords |-> [position |-> c, data |-> 0, origin |-> "generated"]]
    /\ entry_locks = {}
    /\ disk = EmptyMap
    /\ latest = [c \in Coords |-> 0]
    /\ fetch = [p \in Callers |-> IdleFetch]
    /\ rayon = {}
    /\ gen_count = [c \in Coords |-> 1]
    /\ fetch_calls = 0
    /\ tasks = <<>>

NextLock ==
    \/ \E p \in LockCallers : \E h \in Coords : \E pc \in {"lock_read", "lock_write"} :
          CallerLock(p, h, pc)
    \/ \E p \in LockCallers : CallerLocked(p)
    \/ \E p \in LockCallers : CallerUnlock(p)
    \/ \E chunks \in ListsOver(Coords) : CallWriteChunks(Writer, chunks)
    \/ \E p \in LockCallers : \E pos \in Coords : \E delay \in 0..MaxLockDelay :
          \E priority \in 1..NumLockPriorities :
             CallScheduleBlockTick(p, pos, delay, priority)
    \/ \E p \in LockCallers : \E id \in 1..MaxLockTicks : CallIsBlockTickScheduled(p, id)
    \/ \E p \in LockCallers : CallGetAndTickBlockTicks(p)
    \/ \E c \in Coords : CallHandleLoad(Loader, c)
    \/ \E p \in Procs : TickLockAcquire(p)
    \/ \E p \in Procs : LoadReadLock(p)
    \/ \E p \in Procs : LoadReadUnlock(p)
    \/ \E p \in Procs : WriteChunkLock(p)
    \/ \E p \in Procs : WriteChunkRetain(p)
    \/ \E p \in Procs : WriteChunksDrop(p)
    \/ \E p \in Procs : WriteChunksSave(p)
    \/ \E p \in Procs : LoadExtend(p)
    \/ \E p \in Procs : LoadInsert(p)
    \/ \E p \in Procs : SchedulePush(p)
    \/ \E p \in Procs : IsScheduledAny(p)
    \/ \E p \in Procs : GetAndTickDrain(p)

SpecLock == InitLock /\ [][NextLock]_vars

\* p holds the read or the write guard of some chunk.
HoldsChunkGuard(p) ==
    \E h \in DOMAIN chunk_locks : p \in chunk_locks[h].readers \/ chunk_locks[h].writer = p

\* The processes p waits for: the holders of the lock it awaits and, for a
\* read, the writers queued for it.
Blockers(p) ==
    LET tick == IF AwaitsTickLock(p) THEN {tick_lock} \ {0} ELSE {}
        write == UNION {LockOf(h).readers \cup ({LockOf(h).writer} \ {0}) :
                           h \in {x \in DOMAIN chunk_data : AwaitsWrite(p, x)}}
        read == UNION {({LockOf(h).writer} \ {0}) \cup {q \in Procs : AwaitsWrite(q, h)} :
                          h \in {x \in DOMAIN chunk_data : AwaitsRead(p, x)}}
    IN tick \cup write \cup read

\* The processes reached from those of S along at most n waits.
RECURSIVE WaitsOn(_, _)
WaitsOn(S, n) ==
    IF n = 0 THEN S ELSE WaitsOn(S \cup UNION {Blockers(q) : q \in S}, n - 1)

\* ------------------------------------------------------------------ claims
Count(w, c) == IF c \in DOMAIN w THEN w[c] ELSE 0

\* The emissions of call f whose chunk is at coordinate c.
Emitted(f, c) == {i \in DOMAIN f.out : chunk_data[f.out[i].chunk].position = c}

Requested(f) == Range(f.chunks)

\* C1: when two fetch calls for a coordinate that is not cache-resident run
\* concurrently, in any interleaving, both emit the same chunk instance for it,
\* and that instance is the one stored in loaded_chunks.
C1_SameInstance ==
    \A p \in Callers : \A i \in DOMAIN fetch[p].out :
        LET e == fetch[p].out[i]
            c == chunk_data[e.chunk].position
        IN /\ c \in DOMAIN loaded_chunks
           /\ loaded_chunks[c] = e.chunk
           /\ \A q \in Callers : \A k \in Emitted(fetch[q], c) : fetch[q].out[k].chunk = e.chunk

\* Two calls both found coordinate c absent from the cache, the backend loaded
\* c twice (two instances exist), and both calls have emitted for c.
C1_Witness ==
    \E c \in Coords : \E p, q \in Callers :
        /\ p # q
        /\ c \in Range(fetch[p].remaining_chunks)
        /\ c \in Range(fetch[q].remaining_chunks)
        /\ Emitted(fetch[p], c) # {}
        /\ Emitted(fetch[q], c) # {}
        /\ Cardinality({h \in DOMAIN chunk_data : chunk_data[h].position = c}) >= 2

\* C2: the generator never runs for one coordinate in two places at once, and
\* for a coordinate that stays cache-resident it runs once, however many
\* fetches asked for its generation.
C2_GenerateOnce ==
    \A c \in Coords :
        /\ Cardinality({j \in rayon : j.pos = c /\ j.st = "generating"}) <= 1
        /\ gen_count[c] <= 1
        /\ gen_count[c] = 1 =>
              /\ c \in DOMAIN loaded_chunks
              /\ chunk_data[loaded_chunks[c]].origin = "generated"

\* Two calls both sent coordinate c to generation and both have emitted it as
\* freshly generated; the generator ran once.
C2_Witness ==
    \E c \in Coords : \E p, q \in Callers :
        /\ p # q
        /\ gen_count[c] = 1
        /\ \E i \in Emitted(fetch[p], c) : fetch[p].out[i].is_new
        /\ \E i \in Emitted(fetch[q], c) : fetch[q].out[i].is_new

\* C3: one fetch call on distinct coordinates emits exactly once per requested
\* coordinate (never twice at any time, and once when the result channel has
\* closed), whether the chunk came from the cache, the spawn chunks, a storage
\* load or generation.
C3_ExactlyOneEmission ==
    \A p \in Callers : \A c \in Coords :
        /\ Cardinality(Emitted(fetch[p], c)) <= 1
        /\ c \notin Requested(fetch[p]) => Emitted(fetch[p], c) = {}
        /\ (ChannelClosed(p) /\ c \in Requested(fetch[p])) =>
              Cardinality(Emitted(fetch[p], c)) = 1

\* A call on one never-seen and one already-resident coordinate has completed
\* with two emissions.
C3_Witness ==
    \E p \in Callers :
        /\ ChannelClosed(p)
        /\ Len(fetch[p].chunks) = 2
        /\ Len(fetch[p].remaining_chunks) = 1
        /\ Len(fetch[p].out) = 2
        /\ \E i \in DOMAIN fetch[p].out : fetch[p].out[i].is_new

\* C4 as stated: when fetch_chunks returns, every requested coordinate,
\* including those forwarded to generation, has produced its emission.
C4_Original ==
    \A p \in Callers :
        fetch[p].pc = "returned" =>
            \A c \in Requested(fetch[p]) : Emitted(fetch[p], c) # {}

\* C4 amended: when fetch_chunks returns, every requested coordinate has
\* produced its emission or, if it was forwarded to generation, has been handed
\* to the worker pool as a closure that has yet to emit it.
C4_ReturnAccounted ==
    \A p \in Callers :
        fetch[p].pc = "returned" =>
            \A c \in Requested(fetch[p]) :
                \/ Emitted(fetch[p], c) # {}
                \/ \E j \in rayon : j.owner = p /\ j.pos = c

\* A call has returned while the closure generating one of its coordinates has
\* not run yet.
C4_Witness ==
    \E p \in Callers : \E j \in rayon :
        /\ fetch[p].pc = "returned"
        /\ j.owner = p
        /\ j.st = "queued"
        /\ Emitted(fetch[p], j.pos) = {}

\* C5 as stated: no stale reads and no lost writes: a chunk that a fetch has
\* installed in the cache from storage holds the newest content its coordinate
\* had in memory.
C5_NoStaleLoad ==
    \A c \in DOMAIN loaded_chunks :
        chunk_data[loaded_chunks[c]].origin = "loaded" =>
            chunk_data[loaded_chunks[c]].data = latest[c]

\* C6: a clean_chunks task removes a coordinate from the cache only after its
\* own storage write of that coordinate's snapshot has completed.
C6_RemoveAfterWrite ==
    \A n \in DOMAIN tasks :
        tasks[n].removed # {} =>
            /\ tasks[n].written = {e.pos : e \in Range(tasks[n].snap)}
            /\ \A c \in tasks[n].removed : c \in DOMAIN disk

\* A task has written its snapshot and then removed the chunk from the cache.
C6_Witness ==
    \E n \in DOMAIN tasks : \E c \in tasks[n].removed :
        /\ Phase(tasks[n]) = "done"
        /\ c \in tasks[n].written
        /\ c \notin DOMAIN loaded_chunks

\* C7: eviction never removes a cache entry whose watcher count is positive at
\* the moment of removal: if a caller began watching the coordinate while the
\* flush write was in flight, the entry is left resident.
C7_NoRemovalWhileWatched ==
    [][\A c \in EvictCoords :
          (c \in DOMAIN loaded_chunks /\ c \notin DOMAIN loaded_chunks') =>
              c \notin DOMAIN chunk_watchers]_vars

\* A task has finished; the chunk of its snapshot, unwatched when the snapshot
\* was taken, is watched now and is still the cached instance.
C7_Witness ==
    \E n \in DOMAIN tasks : \E e \in Range(tasks[n].snap) :
        /\ Phase(tasks[n]) = "done"
        /\ e.pos \in tasks[n].written
        /\ e.pos \notin tasks[n].removed
        /\ e.pos \in DOMAIN chunk_watchers
        /\ e.pos \in DOMAIN loaded_chunks
        /\ loaded_chunks[e.pos] = e.chunk

\* C8: in every state the watcher table has an entry for a coordinate exactly
\* when at least one caller currently watches it, and every stored count is
\* greater than zero (no entry with count 0 is left by begin_watching,
\* stop_watching or clean_memory).
C8_WatcherTableInvariant ==
    \A c \in Coords :
        /\ IsChunkWatched(c) <=> \E p \in Callers : c \in watching[p]
        /\ IsChunkWatched(c) => chunk_watchers[c] > 0

\* A stop_watching call has just removed one coordinate's entry and left the
\* other one, still watched by someone else, in the table.
C8_Witness ==
    /\ lastOp.op = "stop"
    /\ \E c \in Range(lastOp.chunks) : ~IsChunkWatched(c)
    /\ \E c \in Range(lastOp.chunks) : IsChunkWatched(c) /\ chunk_watchers[c] = 1

\* C9: stop_watching(coords) decrements the count of each listed coordinate by
\* one and returns exactly the coordinates whose count went from 1 to 0, each
\* of which has its entry removed; a coordinate whose count stays positive is
\* not returned and keeps its entry.
C9_StopWatchingResult ==
    lastOp.op \in {"stop", "begin_stop"} =>
        LET S == Range(lastOp.chunks) IN
        /\ \A c \in S : Count(chunk_watchers, c) = SatSub(Count(lastOp.before, c), 1)
        /\ Range(lastOp.ret) = {c \in S : Count(lastOp.before, c) = 1}
        /\ Len(lastOp.ret) = Cardinality(Range(lastOp.ret))
        /\ \A c \in S : IsChunkWatched(c) <=> Count(lastOp.before, c) > 1

\* One stop_watching call returned one of its coordinates and kept the entry
\* of another.
C9_Witness ==
    /\ lastOp.op = "stop"
    /\ Len(lastOp.chunks) = 2
    /\ Len(lastOp.ret) = 1
    /\ \E c \in Range(lastOp.chunks) : Count(lastOp.before, c) = 2 /\ chunk_watchers[c] = 1

\* C10 as stated: begin_watching(S) followed immediately by stop_watching(S)
\* returns every coordinate of S as eviction-eligible and leaves no positive
\* count for any coordinate of S.
C10_Original ==
    lastOp.op = "begin_stop" =>
        /\ Range(lastOp.ret) = Range(lastOp.chunks)
        /\ \A c \in Range(lastOp.chunks) : ~IsChunkWatched(c)

\* C10 amended: begin_watching(S) followed immediately by stop_watching(S)
\* returns exactly the coordinates of S that had no entry before the
\* begin_watching, and leaves every count of S as it was before it.
C10_BeginThenStop ==
    lastOp.op = "begin_stop" =>
        /\ Range(lastOp.ret) = {c \in Range(lastOp.chunks) : c \notin DOMAIN lastOp.before0}
        /\ \A c \in Range(lastOp.chunks) :
              Count(chunk_watchers, c) = Count(lastOp.before0, c)

\* A begin_watching / stop_watching pair on two coordinates, one of them
\* watched by another caller throughout, has just completed.
C10_Witness ==
    /\ lastOp.op = "begin_stop"
    /\ Len(lastOp.chunks) = 2
    /\ Len(lastOp.ret) = 1
    /\ \E c \in Range(lastOp.chunks) : Count(lastOp.before0, c) = 1

\* The places of tick id in a tick list.
Places(ticks, id) == {i \in DOMAIN ticks : ticks[i].id = id}

\* The call on which a tick of delay d is due: call d, and call 1 for delay 0.
DueCall(d) == IF d = 0 THEN 1 ELSE d

\* C14: a tick scheduled with delay d that stays in the global collection is
\* returned by repeated get_and_tick_block_ticks calls exactly once, on call
\* number d counted from its scheduling (delay 0: on the very next call); until
\* then it is in the collection, afterwards it is not.
C14_DueOnCallD ==
    \A id \in DOMAIN tick_hist :
        LET h == tick_hist[id] IN
        /\ h.returned <= 1
        /\ h.returned = 0 =>
              /\ h.calls < DueCall(h.delay)
              /\ Cardinality(Places(block_ticks, id)) = 1
        /\ h.returned = 1 =>
              /\ h.at = DueCall(h.delay)
              /\ Places(block_ticks, id) = {}

\* A tick of delay 0 was returned on its first call and a tick of delay 2 on
\* its second.
C14_Witness ==
    \E a, b \in DOMAIN tick_hist :
        /\ tick_hist[a].delay = 0 /\ tick_hist[a].returned = 1 /\ tick_hist[a].at = 1
        /\ tick_hist[b].delay = 2 /\ tick_hist[b].returned = 1 /\ tick_hist[b].at = 2

\* C15: the ticks one get_and_tick_block_ticks call returns are in ascending
\* priority order, ticks of equal priority in the order they had in the
\* collection; every other tick stays, with its delay reduced by exactly one
\* and in unchanged relative order.
C15_StableByPriority ==
    LET before == last_ticks.before
        ret == last_ticks.ret
        rest == last_ticks.rest
        At(id) == CHOOSE i \in Places(before, id) : TRUE
    IN /\ \A i, j \in DOMAIN ret : i < j =>
              /\ ret[i].priority <= ret[j].priority
              /\ ret[i].priority = ret[j].priority => At(ret[i].id) < At(ret[j].id)
       /\ \A i \in DOMAIN before :
              IF before[i].delay <= 1
              THEN /\ Cardinality(Places(ret, before[i].id)) = 1
                   /\ Places(rest, before[i].id) = {}
              ELSE /\ Places(ret, before[i].id) = {}
                   /\ \E k \in DOMAIN rest :
                         rest[k] = [before[i] EXCEPT !.delay = @ - 1]
       /\ Len(ret) + Len(rest) = Len(before)
       /\ \A i, j \in DOMAIN rest : i < j => At(rest[i].id) < At(rest[j].id)

\* One call returned three ticks, two of equal priority and one of lower
\* priority number scheduled after them, and left a fourth tick behind.
C15_Witness ==
    /\ Len(last_ticks.ret) = 3
    /\ last_ticks.ret[1].id > last_ticks.ret[2].id
    /\ last_ticks.ret[2].priority = last_ticks.ret[3].priority
    /\ Len(last_ticks.rest) = 1
    /\ Places(last_ticks.before, last_ticks.rest[1].id) = {1}

\* C20: stop_watching on a coordinate with no entry in the watcher table is a
\* no-op: the coordinate still has no entry and is not reported as
\* eviction-eligible, the cache is unchanged, a call whose coordinates all
\* have no entry leaves the whole table unchanged and reports nothing, and no
\* count goes below zero.
C20_VacantNoOp ==
    [][(lastOp' # lastOp /\ lastOp'.op \in {"stop", "begin_stop"}) =>
          LET S == Range(lastOp'.chunks) IN
          /\ loaded_chunks' = loaded_chunks
          /\ \A c \in S : c \notin DOMAIN chunk_watchers =>
                 c \notin DOMAIN chunk_watchers' /\ c \notin Range(lastOp'.ret)
          /\ (\A c \in S : c \notin DOMAIN chunk_watchers) =>
                 chunk_watchers' = chunk_watchers /\ lastOp'.ret = <<>>
          /\ \A c \in DOMAIN chunk_watchers' : chunk_watchers'[c] >= 0]_vars

\* A stop_watching call on one coordinate without an entry and one with an
\* entry has completed, with chunks in the cache.
C20_Witness ==
    /\ lastOp.op = "stop"
    /\ \E c \in Range(lastOp.chunks) : c \notin DOMAIN lastOp.before
    /\ \E c \in Range(lastOp.chunks) : c \in DOMAIN lastOp.before
    /\ DOMAIN loaded_chunks # {}

\* C16: shutdown flushes every cache-resident chunk whatever its watcher count:
\* each chunk in the cache when shutdown collects chunks_to_write has been
\* handed to the storage write path once shutdown has completed.
C16_ShutdownFlushesAll ==
    /\ shutdown.pc \in {"clear", "write", "done"} =>
          \A c \in Coords :
              (c \in DOMAIN loaded_chunks \/ c \in shutdown.written) =>
                  \E i \in DOMAIN shutdown.chunks_to_write : shutdown.chunks_to_write[i].pos = c
    /\ shutdown.pc = "clear" =>
          \A c \in DOMAIN loaded_chunks :
              \E i \in DOMAIN shutdown.chunks_to_write :
                  shutdown.chunks_to_write[i] = [pos |-> c, chunk |-> loaded_chunks[c]]
    /\ shutdown.pc = "done" =>
          \A i \in DOMAIN shutdown.chunks_to_write :
              /\ shutdown.chunks_to_write[i].pos \in shutdown.written
              /\ shutdown.chunks_to_write[i].pos \in DOMAIN disk

\* Shutdown has completed after writing a chunk that is still watched and one
\* that is not.
C16_Witness ==
    /\ shutdown.pc = "done"
    /\ \E c \in shutdown.written : c \in DOMAIN chunk_watchers
    /\ \E c \in shutdown.written : c \notin DOMAIN chunk_watchers

C18_ErrorFallsBackToGeneration ==
    \A pc \in errored :
        LET f == fetch[pc[1]]
            c == pc[2]
        IN /\ \A i \in Emitted(f, c) : f.out[i].is_new
           /\ \/ \E i \in DOMAIN f.load_bridge :
                     f.load_bridge[i].kind = "Error" /\ f.load_bridge[i].pos = c
              \/ f.load = "forward" /\ f.cur.kind = "Error" /\ f.cur.pos = c
              \/ \E i \in DOMAIN f.generate_bridge : f.generate_bridge[i] = c
              \/ \E j \in rayon : j.owner = pc[1] /\ j.pos = c
              \/ Cardinality(Emitted(f, c)) = 1
           /\ ChannelClosed(pc[1]) => Cardinality(Emitted(f, c)) = 1

\* A read error for a chunk that is saved on disk: the call has completed, the
\* coordinate was emitted as freshly generated, and the emitted chunk is one
\* that another call loaded from storage.
C18_Witness ==
    \E pc \in errored :
        /\ pc[2] \in DOMAIN disk
        /\ ChannelClosed(pc[1])
        /\ \E i \in Emitted(fetch[pc[1]], pc[2]) :
              /\ fetch[pc[1]].out[i].is_new
              /\ chunk_data[fetch[pc[1]].out[i].chunk].origin = "loaded"

\* C19: every fetch call terminates.  Under fair scheduling, with a backend
\* that reports every forwarded coordinate, a call that has started returns
\* (both handlers have ended then, neither left waiting on a bridge) and its
\* result channel closes, after at most one emission per requested coordinate.
C19_FetchTerminates ==
    /\ \A p \in LiveCallers :
          (fetch[p].pc \in {"partition", "io"}) ~>
              (ChannelClosed(p) /\ JoinAll(fetch[p]))
    /\ [](\A p \in LiveCallers : Len(fetch[p].out) <= Len(fetch[p].chunks))

\* handle_load waits for room on the full generation bridge: the position it
\* has to forward is behind one that handle_generate has not received yet.
C19_Witness ==
    \E p \in LiveCallers :
        /\ fetch[p].pc = "io"
        /\ fetch[p].load = "forward"
        /\ fetch[p].generate_bridge # <<>>
        /\ ~HasRoom(fetch[p].generate_bridge)

\* The ticks that have been scheduled and not yet returned as due.
PendingTicks == {id \in DOMAIN tick_hist : tick_hist[id].returned = 0}

\* C12 as stated: a chunk flushed by eviction and then re-fetched comes with
\* its ticks: when a fetch serves, from the cache or from storage, the chunk of
\* a coordinate whose saved record holds the emitted content, every tick of
\* that record not yet returned as due is in the global collection after the
\* emission, as often as in the record.
C12_RoundTrip ==
    [][\A p \in LiveCallers :
          Len(fetch'[p].out) > Len(fetch[p].out) =>
              LET e == fetch'[p].out[Len(fetch'[p].out)]
                  h == e.chunk
                  c == chunk_data'[h].position
              IN (~e.is_new /\ c \in DOMAIN disk /\ chunk_data'[h].data = disk[c]) =>
                     \A id \in PendingTicks :
                         Places(TicksOf(disk_ticks, c), id) # {} =>
                             Cardinality(Places(block_ticks', id)) =
                                 Cardinality(Places(TicksOf(disk_ticks, c), id))]_vars

\* C13 as stated: no scheduled tick is lost: every tick not yet returned as
\* due is in the global collection or in the saved record of its chunk.
C13_NoTickLost ==
    \A id \in PendingTicks :
        \/ Places(block_ticks, id) # {}
        \/ \E c \in DOMAIN disk_ticks : Places(disk_ticks[c], id) # {}

\* The number of eviction tasks that have saved coordinate c.
Saves(c) == Cardinality({n \in DOMAIN tasks : c \in tasks[n].written})

\* C11: the end-to-end scenario.  The first caller's fetch emits once, a
\* generated chunk flagged new, after one generation; the second caller's fetch
\* emits the same handle flagged not new, with no second generation; once both
\* have stopped watching and eviction has run for what stop_watching reported,
\* the coordinate has been saved exactly once and is out of the cache; a later
\* fetch with no watcher emits a chunk flagged not new that came from a storage
\* load and holds the generated content.
C11_Scenario ==
    /\ [](/\ \A c \in Coords : gen_count[c] <= 1
          /\ \A p \in Callers : Done(p) => Len(fetch[p].out) = 1
          /\ \A p \in Callers :
                (fetch_calls = 1 /\ Done(p)) =>
                    LET e == fetch[p].out[1] IN
                    /\ e.is_new
                    /\ chunk_data[e.chunk].origin = "generated"
                    /\ gen_count[chunk_data[e.chunk].position] = 1
          /\ \A p \in Callers : \A q \in Callers \ {p} :
                (fetch_calls = 2 /\ Done(p) /\ Done(q)) =>
                    /\ fetch[p].out[1].chunk = fetch[q].out[1].chunk
                    /\ fetch[p].out[1].is_new # fetch[q].out[1].is_new
          /\ \A c \in Coords :
                (fetch_calls >= 2 /\ Evicted /\ gen_count[c] > 0) =>
                    /\ Saves(c) = 1
                    /\ fetch_calls = 2 => c \notin DOMAIN loaded_chunks)
    /\ [][\A p \in Callers :
             (fetch_calls >= 3 /\ Len(fetch'[p].out) > Len(fetch[p].out)) =>
                 LET e == fetch'[p].out[Len(fetch'[p].out)]
                     d == chunk_data'[e.chunk]
                 IN /\ ~e.is_new
                    /\ d.origin = "loaded"
                    /\ \A g \in DOMAIN chunk_data' :
                          (chunk_data'[g].origin = "generated"
                              /\ chunk_data'[g].position = d.position) =>
                                 chunk_data'[g].data = d.data]_vars

\* The scenario has run to its end: one caller still holds the generated
\* handle, the coordinate was saved once, and the later fetch is over with a
\* loaded chunk.
C11_Witness ==
    \E p \in Callers : \E q \in Callers \ {p} :
        /\ fetch_calls = 3
        /\ Done(p) /\ Done(q)
        /\ chunk_data[fetch[p].out[1].chunk].origin = "generated"
        /\ chunk_data[fetch[q].out[1].chunk].origin = "loaded"
        /\ ~fetch[q].out[1].is_new
        /\ Saves(chunk_data[fetch[q].out[1].chunk].position) = 1

\* C21: the watcher table is linearizable per coordinate.  Under any
\* interleaving of the iterations of concurrent begin_watching and
\* stop_watching calls of callers that stop only what they watch, the count of
\* a coordinate is the number of completed begin iterations minus the number
\* of completed stop iterations for it, and a step reports the coordinate
\* eligible, once, exactly when it takes the count from positive to zero.
C21_Linearizable ==
    /\ [](\A c \in Coords :
             Count(chunk_watchers, c) = watch_hist[c].begun - watch_hist[c].stopped)
    /\ [][\A c \in Coords :
             watch_hist'[c].reported - watch_hist[c].reported =
                 IF Count(chunk_watchers, c) > 0 /\ Count(chunk_watchers', c) = 0
                 THEN 1 ELSE 0]_vars

\* Two calls of different callers are both inside their loops, one a begin and
\* one a stop, on a coordinate that has already been reported once and is
\* counted again.
C21_Witness ==
    \E p \in Callers : \E q \in Callers \ {p} : \E c \in Coords :
        /\ watch_call[p].op = "begin" /\ watch_call[q].op = "stop"
        /\ watch_call[p].i > 1 /\ watch_call[p].i <= Len(watch_call[p].chunks)
        /\ watch_call[q].i > 1 /\ watch_call[q].i <= Len(watch_call[q].chunks)
        /\ c \in Range(watch_call[p].chunks) \cap Range(watch_call[q].chunks)
        /\ watch_hist[c].reported >= 1
        /\ Count(chunk_watchers, c) >= 1

\* C22: a dropped receiver does not affect the pipeline.  Whether or not the
\* caller has dropped the receiving side of the result channel, a started call
\* returns and its closures end, and then every requested coordinate is in the
\* cache; with the receiver dropped the failed sends add nothing to the channel.
C22_DropUnaffected ==
    /\ \A p \in LiveCallers :
          (fetch[p].pc \in {"partition", "io"}) ~> (ChannelClosed(p) /\ JoinAll(fetch[p]))
    /\ [](\A p \in LiveCallers :
             ChannelClosed(p) => Requested(fetch[p]) \subseteq DOMAIN loaded_chunks)
    /\ [][\A p \in LiveCallers :
             ~fetch[p].receiver => fetch'[p].out \in {fetch[p].out, <<>>}]_vars

\* A call is over whose receiver was dropped before every emission was made:
\* fewer emissions than coordinates were received, one coordinate was generated
\* for it, and all of them are cached.
C22_Witness ==
    \E p \in LiveCallers :
        /\ ChannelClosed(p)
        /\ ~fetch[p].receiver
        /\ Len(fetch[p].out) < Len(fetch[p].chunks)
        /\ \E c \in Requested(fetch[p]) : gen_count[c] > 0
        /\ Requested(fetch[p]) \subseteq DOMAIN loaded_chunks

\* C23: shutdown's steps are ordered.  The snapshot of the cache is taken only
\* when every task spawned before shutdown closed the task tracker has ended
\* and the backend has reported every read that was outstanding when shutdown
\* was called; the world info is written only
\* when every chunk of the snapshot has been saved; and whatever the world
\* info write returns, shutdown is done after it.
C23_ShutdownOrdered ==
    /\ [][(shutdown.pc = "collect" /\ shutdown'.pc = "clear") =>
             /\ \A n \in 1..shutdown.tasks_at_close : Phase(tasks[n]) = "done"
             /\ shutdown.reads_at_close \cap OutstandingReads = {}]_vars
    /\ [][shutdown'.world_info # shutdown.world_info =>
             \A i \in DOMAIN shutdown.chunks_to_write :
                 /\ shutdown.chunks_to_write[i].pos \in shutdown.written
                 /\ shutdown.chunks_to_write[i].pos \in DOMAIN disk]_vars
    /\ [][(shutdown.pc = "info" /\ shutdown' # shutdown) => shutdown'.pc = "done"]_vars

\* Shutdown is done although the world info write failed; it flushed a chunk
\* after an eviction task spawned before it had written, and clean_chunks
\* spawned another task while it ran.
C23_Witness ==
    /\ shutdown.pc = "done"
    /\ shutdown.world_info = "Err"
    /\ shutdown.written # {}
    /\ \E n \in 1..shutdown.tasks_at_close : tasks[n].written # {}
    /\ Len(tasks) > shutdown.tasks_at_close

\* The handles caller p holds: what its call has emitted to a receiver it has
\* not dropped.
Held(p) == IF fetch[p].receiver THEN Range(fetch[p].out) ELSE {}

\* C24: when callers watch before they fetch and hold a handle only while they
\* watch, the handle a watching caller holds is the instance the cache has for
\* that coordinate: the chunk is resident and was not replaced, whatever
\* clean_chunks and clean_memory did meanwhile.
C24_HeldIsCached ==
    \A p \in Callers : \A e \in Held(p) :
        LET c == chunk_data[e.chunk].position IN
        c \in watching[p] => c \in DOMAIN loaded_chunks /\ loaded_chunks[c] = e.chunk

\* A watching caller holds the cached instance although an eviction task that
\* had snapshotted and written that coordinate has ended without removing it.
C24_Witness ==
    \E p \in Callers : \E e \in Held(p) : \E n \in DOMAIN tasks :
        LET c == chunk_data[e.chunk].position IN
        /\ c \in watching[p]
        /\ Phase(tasks[n]) = "done"
        /\ c \in tasks[n].written /\ c \notin tasks[n].removed
        /\ loaded_chunks[c] = e.chunk

\* The content of instance h of coordinate c has been handed to the storage
\* write path: it is what the saved record holds, or an eviction task or
\* shutdown holds the instance in a snapshot it has still to write.
HandedToStorage(c, h) ==
    \/ c \in DOMAIN disk /\ disk[c] = chunk_data[h].data
    \/ \E n \in DOMAIN tasks : \E i \in DOMAIN tasks[n].snap :
          /\ Phase(tasks[n]) = "write" /\ i >= tasks[n].i
          /\ tasks[n].snap[i] = [pos |-> c, chunk |-> h]
    \/ \E i \in DOMAIN shutdown.chunks_to_write :
          /\ shutdown.pc \in {"clear", "write"} /\ i >= shutdown.i
          /\ shutdown.chunks_to_write[i] = [pos |-> c, chunk |-> h]

\* C25 as stated: whatever operation removes a chunk from the cache, the
\* content the chunk has at that moment has been handed to the storage write
\* path.
C25_RemovedOnlyIfSaved ==
    [][\A c \in Coords :
          (c \in DOMAIN loaded_chunks /\ c \notin DOMAIN loaded_chunks') =>
              HandedToStorage(c, loaded_chunks[c])]_vars

\* C26 as stated: a tick that is scheduled for a position of a cache-resident
\* chunk is eventually returned as due, unless the chunk leaves the cache
\* first.
C26_ResidentTickBecomesDue ==
    \A id \in 1..MaxEvictTicks : \A c \in EvictCoords :
        (/\ c \in DOMAIN loaded_chunks
         /\ \E i \in DOMAIN block_ticks : block_ticks[i].id = id /\ block_ticks[i].pos = c)
            ~> (\/ id \in DOMAIN tick_hist /\ tick_hist[id].returned > 0
                \/ c \notin DOMAIN loaded_chunks)

\* C27 as stated: loading never duplicates a scheduled tick: whatever fetch
\* calls have run, each tick is in the global collection at most once.
C27_NoDuplicateTicks ==
    \A id \in DOMAIN tick_hist : Cardinality(Places(block_ticks, id)) <= 1

\* The emissions flagged as freshly generated that callers have received for
\* coordinate c.
FlaggedNew(c) ==
    {pi \in Callers \X (1..MaxListLen) :
        /\ pi[2] \in DOMAIN fetch[pi[1]].out
        /\ fetch[pi[1]].out[pi[2]].is_new
        /\ chunk_data[fetch[pi[1]].out[pi[2]].chunk].position = c}

\* C28 as stated: an emission is flagged freshly generated only if the
\* generator ran for it: the emitted chunk came from the generator, not from
\* storage or the spawn chunks, and a coordinate has no more emissions flagged
\* so than the generator has run for it.
C28_FlagOnlyIfGenerated ==
    \A c \in Coords :
        /\ Cardinality(FlaggedNew(c)) <= gen_count[c]
        /\ \A pi \in FlaggedNew(c) :
              chunk_data[fetch[pi[1]].out[pi[2]].chunk].origin = "generated"

\* C29: with respect to the tick lock and the chunk locks the operations are
\* deadlock-free while callers call them holding no chunk lock: the tick lock
\* is always taken first, so that nobody awaits it holding a chunk's guard,
\* and no process of write_chunks, the load handler, schedule_block_tick,
\* is_block_tick_scheduled, get_and_tick_block_ticks and the lock-holding
\* callers waits, directly or through others, for itself.
C29_DeadlockFree ==
    /\ \A p \in Procs : AwaitsTickLock(p) => ~HoldsChunkGuard(p)
    /\ \A p \in Procs : p \notin WaitsOn(Blockers(p), NumProcs)

\* write_chunks holds the tick lock and waits for the write lock of a chunk a
\* caller holds, while the load handler and a tick operation wait for the
\* tick lock.
C29_Witness ==
    \E p \in Procs : \E q \in Procs : \E r \in Procs :
        /\ lock_call[p].op = "write_chunks"
        /\ lock_call[p].pc = "lock_chunk"
        /\ tick_lock = p
        /\ q \in Blockers(p)
        /\ lock_call[q].held # 0
        /\ lock_call[r].op \in {"handle_load", "schedule_block_tick",
                                "is_block_tick_scheduled", "get_and_tick_block_ticks"}
        /\ Blockers(r) = {p}

=============================================================================
